---- MODULE Spec2Model ----
(***************************************************************************)
(* Model of the job scheduling engine of carbon                            *)
(* (packages/database/supabase/functions/lib/scheduling).                  *)
(*                                                                         *)
(* Calendar dates are day numbers counted from 1970-01-01: an ISO date     *)
(* string "YYYY-MM-DD" parses to UTC midnight, formatDate prints the UTC   *)
(* date, and the edge runtime's local zone is UTC, so new Date(s),         *)
(* setDate(getDate() +/- 1), getDay() and formatDate act on the day number *)
(* (20105 is Friday 2025-01-17).                                           *)
(***************************************************************************)
EXTENDS Integers, Sequences, FiniteSets, TLC

VARIABLES
    pc,          \* position of the flow the specification is about
    operations,  \* the job's operations: id -> BaseOperation
    graph,       \* DependencyGraphImpl: nodes in Map order, dependsOn, requiredBy
    addCalls,    \* number of addDependency calls made on the built graph
    sortResult,  \* what topologicalSort returned
    sortOutcome, \* how topologicalSort ended: "returned" or an error kind
    direction,   \* scheduling direction of the run, or the sort's direction
    today,       \* getTodayString() of the run
    jobDate,     \* the anchor given to calculateDates (None when the job has none)
    scheduled,   \* the strategy's result: the Map id -> ScheduledOperation
    firstRun,    \* the backward result kept while the forward run of a round trip is made
    prioInput,   \* the OperationWithJobInfo list given to calculatePrioritiesByWorkCenter
    priorities,  \* its result: the Map id -> priority
    rows,        \* storage: the jobOperation rows, of this job and of other jobs
    prevRows,    \* the rows as they were when the latest run started
    runs,        \* number of runs of the engine made on the job
    processTable, \* storage: process id -> the work-center list of the process
    activeTable, \* storage: the work centers active at the job's location
    request,     \* the HTTP request the schedule function is serving
    response,    \* its response
    depRows,     \* storage: the job's jobOperationDependency records
    prevDepRows, \* the dependency records as they were when the request came in
    taskQueue,   \* the "scheduling" queue: payloads of schedule-job runs waiting
    running,     \* the schedule-job runs executing: <<run number, jobId>>
    triggered,   \* number of schedule-job runs triggered so far
    selectorRuns, \* the selectors of the engine runs in progress, each with its tally
    assemblyTree, \* the AssemblyNode buildAssemblyTree returned, NULL before
    selector,    \* the WorkCenterSelector while it works through a batch
    wcSelections \* what selectWorkCentersForOperations returned: id -> workCenterId or NULL

graphVars == <<graph, addCalls, sortResult, sortOutcome>>
schedVars == <<operations, today, jobDate, scheduled, firstRun>>
prioVars == <<prioInput, priorities>>
selVars == <<processTable, activeTable, wcSelections>>
reqVars == <<request, response, depRows, prevDepRows>>
queueVars == <<taskQueue, running, triggered>>
concVars == <<selectorRuns>>
treeVars == <<assemblyTree>>
batchVars == <<selector>>
otherVars == <<selVars, reqVars, queueVars, concVars, treeVars, batchVars>>
pipeVars == <<rows, prevRows, runs, otherVars>>

vars == <<pc, direction, graphVars, schedVars, prioVars, pipeVars>>

NULL == "null"

\* An optional number: None for null or undefined, Some(x) for the number x.
None == <<>>
Some(x) == <<x>>
ValueOf(opt) == opt[1]

\* A Map as a function on the keys it holds.
MapSet(map, key, value) ==
    [k \in DOMAIN map \cup {key} |-> IF k = key THEN value ELSE map[k]]
EmptyMap == [k \in {} |-> NULL]

\* Operation ids. OpOrder is the order the job's operations are loaded in
\* (orderBy("order")).
OpOrder == <<"A", "B", "C">>
OpIds == {OpOrder[i] : i \in 1..Len(OpOrder)}

-----------------------------------------------------------------------------
(* Sequence helpers *)

InSeq(x, s) == \E i \in 1..Len(s) : s[i] = x

SeqToSet(s) == {s[i] : i \in 1..Len(s)}

IndexOf(x, s) == CHOOSE i \in 1..Len(s) : s[i] = x /\ \A j \in 1..(i - 1) : s[j] # x

Max2(a, b) == IF a >= b THEN a ELSE b

SetMin(S) == CHOOSE x \in S : \A y \in S : x <= y

SetMax(S) == CHOOSE x \in S : \A y \in S : x >= y

\* All sequences without repetition over S of length at most n.
RECURSIVE DistinctSeqs(_, _)
DistinctSeqs(S, n) ==
    IF n = 0 THEN {<<>>}
    ELSE LET shorter == DistinctSeqs(S, n - 1)
             longer == {Append(s, x) : s \in shorter, x \in S}
         IN  shorter \cup
             {s \in longer : \A i, j \in 1..Len(s) : i # j => s[i] # s[j]}

-----------------------------------------------------------------------------
(* Date arithmetic: date-calculator.ts *)

\* Date.getDay(): 0 = Sunday .. 6 = Saturday (1970-01-01 was a Thursday).
getDay(date) == (date + 4) % 7

IsWeekend(date) == getDay(date) = 0 \/ getDay(date) = 6

\* Calendar days instead of business days: weekends are counted.
subtractCalendarDays(date, days) == IF days <= 0 THEN date ELSE date - days

RECURSIVE subtractBusinessDays(_, _)
subtractBusinessDays(date, days) ==
    IF days <= 0 THEN date
    ELSE LET result == date - 1
         IN  IF ~IsWeekend(result)
             THEN subtractBusinessDays(result, days - 1)
             ELSE subtractBusinessDays(result, days)

\* Calendar days instead of business days: weekends are counted.
addCalendarDays(date, days) == IF days <= 0 THEN date ELSE date + days

RECURSIVE addBusinessDays(_, _)
addBusinessDays(date, days) ==
    IF days <= 0 THEN date
    ELSE LET result == date + 1
         IN  IF ~IsWeekend(result)
             THEN addBusinessDays(result, days - 1)
             ELSE addBusinessDays(result, days)

-----------------------------------------------------------------------------
(* Dependency graph: dependency-manager.ts *)

\* A graph is [ids: the node ids in Map insertion order,
\*             dependsOn, requiredBy: id -> list]; ids that are no node
\* have no entry in the Map and are given the empty list here.
IsNode(g, id) == InSeq(id, g.ids)

\* initializeFromOperations, lines 30-38: one node per operation that has an
\* id, in the order of the operations (operation ids are unique).
NodesOf(opIds) == SelectSeq(opIds, LAMBDA id : id # NULL)

EmptyGraph(opIds, allIds) ==
    [ids |-> NodesOf(opIds),
     dependsOn |-> [x \in allIds |-> <<>>],
     requiredBy |-> [x \in allIds |-> <<>>]]

getDependencies(g, operationId) ==
    IF IsNode(g, operationId) THEN g.dependsOn[operationId] ELSE <<>>

getDependents(g, operationId) ==
    IF IsNode(g, operationId) THEN g.requiredBy[operationId] ELSE <<>>

addDependency(g, operationId, dependsOnId) ==
    LET g1 == IF IsNode(g, operationId) /\ ~InSeq(dependsOnId, g.dependsOn[operationId])
              THEN [g EXCEPT !.dependsOn[operationId] = Append(@, dependsOnId)]
              ELSE g
    IN  IF IsNode(g1, dependsOnId) /\ ~InSeq(operationId, g1.requiredBy[dependsOnId])
        THEN [g1 EXCEPT !.requiredBy[dependsOnId] = Append(@, operationId)]
        ELSE g1

\* initializeFromOperations, lines 41-43: a dependency record is <<operationId, dependsOnId>>.
RECURSIVE AddRecords(_, _)
AddRecords(g, records) ==
    IF records = <<>> THEN g
    ELSE AddRecords(addDependency(g, Head(records)[1], Head(records)[2]), Tail(records))

DependencyGraphImpl(opIds, records, allIds) ==
    AddRecords(EmptyGraph(opIds, allIds), records)

\* topologicalSort, lines 100-106: the in-degrees and the first queue.
InDegreeList(g, dir, id) ==
    IF dir = "forward" THEN g.dependsOn[id] ELSE g.requiredBy[id]

NeighborList(g, dir, id) ==
    IF dir = "forward" THEN g.requiredBy[id] ELSE g.dependsOn[id]

InitialQueue(g, dir) ==
    SelectSeq(g.ids, LAMBDA id : Len(InDegreeList(g, dir, id)) = 0)

\* lines 120-126: the loop over one node's neighbours; st = [deg, queue].
\* A neighbour that is no node has no in-degree (undefined - 1 is NaN) and is
\* never queued.
RECURSIVE VisitNeighbors(_, _, _)
VisitNeighbors(g, neighbors, st) ==
    IF neighbors = <<>> THEN st
    ELSE LET n == Head(neighbors)
         IN  IF ~IsNode(g, n) THEN VisitNeighbors(g, Tail(neighbors), st)
             ELSE LET degree == st.deg[n] - 1
                      st1 == [deg |-> [st.deg EXCEPT ![n] = degree],
                              queue |-> IF degree = 0 THEN Append(st.queue, n)
                                        ELSE st.queue]
                  IN  VisitNeighbors(g, Tail(neighbors), st1)

\* lines 109-127: the BFS loop.
RECURSIVE KahnLoop(_, _, _, _)
KahnLoop(g, dir, st, result) ==
    IF st.queue = <<>> THEN result
    ELSE LET opId == Head(st.queue)
             st1 == VisitNeighbors(g, NeighborList(g, dir, opId),
                                   [deg |-> st.deg, queue |-> Tail(st.queue)])
         IN  KahnLoop(g, dir, st1, Append(result, opId))

topologicalSort(g, dir) ==
    KahnLoop(g, dir,
             [deg |-> [id \in DOMAIN g.dependsOn |-> Len(InDegreeList(g, dir, id))],
              queue |-> InitialQueue(g, dir)],
             <<>>)

\* topologicalSort has one exit, the return of line 129.
topologicalSortOutcome(g, dir) == "returned"

-----------------------------------------------------------------------------
(* Dependency builder: dependency-manager.ts, buildOperationDependencies *)

WithPrevious == "With Previous"
AfterPrevious == "After Previous"

\* lines 176-178: a stable sort of the ids by (order ?? 0).
RECURSIVE InsertByOrder(_, _, _)
InsertByOrder(ops, sorted, id) ==
    IF sorted = <<>> THEN <<id>>
    ELSE IF ops[Head(sorted)].order <= ops[id].order
         THEN <<Head(sorted)>> \o InsertByOrder(ops, Tail(sorted), id)
         ELSE <<id>> \o sorted

RECURSIVE SortByOrder(_, _)
SortByOrder(ops, ids) ==
    IF ids = <<>> THEN <<>>
    ELSE InsertByOrder(ops, SortByOrder(ops, SubSeq(ids, 1, Len(ids) - 1)), ids[Len(ids)])

\* lines 188-197: the scan from j = i - 1 down to 0 (0-based there, 1-based
\* here: position p here is index p - 1 there, and the adjusted order of a hit
\* at index j is j + 1, that is p).
RECURSIVE ScanBack(_, _, _, _)
ScanBack(ops, sorted, p, fallback) ==
    IF p < 1 THEN fallback
    ELSE IF ops[sorted[p]].operationOrder # WithPrevious THEN p
         ELSE IF p = 1 THEN 1
              ELSE ScanBack(ops, sorted, p - 1, fallback)

\* An adjusted order that is the position for every operation.
adjustedOrderByPosition(ops, sorted, i) == i

\* lines 181-202: position i here is index i - 1 there.
adjustedOrder(ops, sorted, i) ==
    IF ops[sorted[i]].operationOrder = WithPrevious /\ i > 1
    THEN ScanBack(ops, sorted, i - 1, i - 1)
    ELSE i

\* The other ids of the same adjusted order as position i, and those of
\* every lower one.
sameOrLowerOrderOps(ops, sorted, i) ==
    LET at == SelectSeq([j \in 1..Len(sorted) |-> j],
                        LAMBDA j : /\ j # i
                                   /\ adjustedOrder(ops, sorted, j)
                                          <= adjustedOrder(ops, sorted, i))
    IN  [k \in 1..Len(at) |-> sorted[at[k]]]

\* lines 205-228: the ids of the adjusted order just below that of position i,
\* in the order of sorted; empty for the lowest adjusted order.
previousOrderOps(ops, sorted, i) ==
    LET mine == adjustedOrder(ops, sorted, i)
        lower == {adjustedOrder(ops, sorted, j) : j \in 1..Len(sorted)} \cap 1..(mine - 1)
    IN  IF lower = {} THEN <<>>
        ELSE LET prev == SetMax(lower)
                 at == SelectSeq([j \in 1..Len(sorted) |-> j],
                                 LAMBDA j : adjustedOrder(ops, sorted, j) = prev)
             IN  [k \in 1..Len(at) |-> sorted[at[k]]]

\* The Map id -> Set of the ids it depends on, each Set in insertion order.
buildOperationDependencies(ops, ids) ==
    LET sorted == SortByOrder(ops, ids)
    IN  [id \in SeqToSet(ids) |-> previousOrderOps(ops, sorted, IndexOf(id, sorted))]

\* dependenciesToRecords, lines 244-253: the Map is walked in insertion order,
\* which is the order of the operations given to buildOperationDependencies.
RECURSIVE dependenciesToRecords(_, _)
dependenciesToRecords(dependencies, ids) ==
    IF ids = <<>> THEN <<>>
    ELSE LET deps == dependencies[Head(ids)]
         IN  [k \in 1..Len(deps) |-> <<Head(ids), deps[k]>>]
             \o dependenciesToRecords(dependencies, Tail(ids))

-----------------------------------------------------------------------------
(* Durations: duration-calculator.ts *)

HOURS_PER_WORKDAY == 8

\* Math.ceil(a / b) for integers a >= 0, b > 0.
CeilDiv(a, b) == (a + b - 1) \div b

\* lines 88-109, for an operation whose three times are given in "Total Hours"
\* (convertToHours returns the time itself).
calculateDurationHours(op) == op.setupTime + Max2(op.laborTime, op.machineTime)

\* Whole days only: a duration below one workday is zero days.
calculateDurationDaysRoundedDown(op) == calculateDurationHours(op) \div HOURS_PER_WORKDAY

calculateDurationDays(op) ==
    Max2(CeilDiv(calculateDurationHours(op), HOURS_PER_WORKDAY), 1)

\* Hours with a fraction are counted in units of 1/HourUnits hour, so that
\* 6.5 hours is the whole number 6.5 * HourUnits; the code computes them in
\* floating point. Every quotient below is exact for the times and
\* quantities of SpecDuration.
HourUnits == 3600000

\* convertToHours, lines 11-44: time is None for null or undefined.
convertToHours(time, unit, quantity) ==
    IF time = None \/ time = Some(0) \/ unit = NULL THEN 0
    ELSE LET t == ValueOf(time)
         IN  CASE unit = "Total Hours" -> t * HourUnits
               [] unit = "Total Minutes" -> (t * HourUnits) \div 60
               [] unit = "Hours/Piece" -> t * quantity * HourUnits
               [] unit = "Hours/100 Pieces" -> (t * quantity * HourUnits) \div 100
               [] unit = "Hours/1000 Pieces" -> (t * quantity * HourUnits) \div 1000
               [] unit = "Minutes/Piece" -> (t * quantity * HourUnits) \div 60
               [] unit = "Minutes/100 Pieces" -> ((t * quantity * HourUnits) \div 100) \div 60
               [] unit = "Minutes/1000 Pieces" -> ((t * quantity * HourUnits) \div 1000) \div 60
               [] unit = "Pieces/Hour" -> IF t > 0 THEN (quantity * HourUnits) \div t ELSE 0
               [] unit = "Pieces/Minute" -> IF t > 0 THEN (quantity * HourUnits) \div (t * 60) ELSE 0
               [] unit = "Seconds/Piece" -> (t * quantity * HourUnits) \div 3600
               [] OTHER -> 0

\* Labor and machine hours added up instead of overlapping.
calculateDurationHoursSummed(operation) ==
    LET quantity == IF operation.operationQuantity \in {None, Some(0)} THEN 1
                    ELSE ValueOf(operation.operationQuantity)
    IN  convertToHours(operation.setupTime, operation.setupUnit, quantity)
        + convertToHours(operation.laborTime, operation.laborUnit, quantity)
        + convertToHours(operation.machineTime, operation.machineUnit, quantity)

\* calculateDurationHours, lines 88-109, for an operation with units and a
\* quantity.
calculateDurationHoursByUnit(operation) ==
    LET quantity == IF operation.operationQuantity \in {None, Some(0)} THEN 1
                    ELSE ValueOf(operation.operationQuantity)
    IN  convertToHours(operation.setupTime, operation.setupUnit, quantity)
        + Max2(convertToHours(operation.laborTime, operation.laborUnit, quantity),
               convertToHours(operation.machineTime, operation.machineUnit, quantity))

\* calculateDurationDays, lines 115-121, for the same.
calculateDurationDaysByUnit(operation) ==
    Max2(CeilDiv(calculateDurationHoursByUnit(operation), HOURS_PER_WORKDAY * HourUnits), 1)

-----------------------------------------------------------------------------
(* Scheduling strategies: date-calculator.ts *)

\* op.priority ?? fallback
PriorityOr(op, fallback) == IF op.priority = None THEN fallback ELSE ValueOf(op.priority)

\* Constraint dates that leave the lead times out.
dependentConstraintsNoLead(ops, sch, dependents) ==
    {sch[d].startDate : d \in SeqToSet(dependents) \cap DOMAIN sch}

\* Backward, lines 109-125: the constraint dates of the dependents that are
\* scheduled (a scheduled operation always has a start date); the lead time
\* of a dependent with no operation in the map counts as 0.
dependentConstraints(ops, sch, dependents) ==
    {IF d \in DOMAIN ops /\ ops[d].operationLeadTime > 0
         THEN subtractBusinessDays(sch[d].startDate, ops[d].operationLeadTime)
         ELSE sch[d].startDate :
     d \in SeqToSet(dependents) \cap DOMAIN sch}

\* A due date taken from the latest dependent instead of the earliest.
backwardDueDateLatest(ops, g, sch, finalDueDate, opId) ==
    LET dependents == getDependents(g, opId)
        constraints == dependentConstraints(ops, sch, dependents)
    IN  IF Len(dependents) = 0 \/ constraints = {} THEN finalDueDate
        ELSE SetMax(constraints)

\* Backward, lines 100-136.
backwardDueDate(ops, g, sch, finalDueDate, opId) ==
    LET dependents == getDependents(g, opId)
        constraints == dependentConstraints(ops, sch, dependents)
    IN  IF Len(dependents) = 0 \/ constraints = {} THEN finalDueDate
        ELSE SetMin(constraints)

\* The predecessor a "With Previous" operation copies: the first dependency,
\* when it is scheduled already (lines 139-144 and 250-253); NULL otherwise.
\* The operation copied from is the first dependency or, when that one is
\* not scheduled yet, the first dependent.
copiedNeighbour(ops, g, sch, opId) ==
    LET dependencies == getDependencies(g, opId)
        dependents == getDependents(g, opId)
    IN  IF ops[opId].operationOrder # WithPrevious \/ Len(dependencies) = 0 THEN NULL
        ELSE IF dependencies[1] \in DOMAIN sch THEN dependencies[1]
        ELSE IF Len(dependents) > 0 /\ dependents[1] \in DOMAIN sch THEN dependents[1]
        ELSE NULL

copiedPredecessor(ops, g, sch, opId) ==
    LET dependencies == getDependencies(g, opId)
    IN  IF /\ ops[opId].operationOrder = WithPrevious
           /\ Len(dependencies) > 0
           /\ dependencies[1] \in DOMAIN sch
        THEN dependencies[1]
        ELSE NULL

\* A conflict test that looks at the due date instead of the start date.
backwardScheduleDueConflict(ops, g, sch, finalDueDate, td, opId) ==
    LET op == ops[opId]
        durationDays == calculateDurationDays(op)
        durationHours == calculateDurationHours(op)
        dueDate == backwardDueDate(ops, g, sch, finalDueDate, opId)
        pred == copiedPredecessor(ops, g, sch, opId)
        startDate == subtractBusinessDays(dueDate, durationDays)
        hasConflict == dueDate < td
    IN  IF pred # NULL
        THEN [startDate |-> sch[pred].startDate,
              dueDate |-> sch[pred].dueDate,
              priority |-> PriorityOr(op, 99),
              durationHours |-> durationHours,
              durationDays |-> durationDays,
              hasConflict |-> sch[pred].hasConflict,
              conflictReason |-> sch[pred].conflictReason]
        ELSE [startDate |-> startDate,
              dueDate |-> dueDate,
              priority |-> PriorityOr(op, 99),
              durationHours |-> durationHours,
              durationDays |-> durationDays,
              hasConflict |-> hasConflict,
              conflictReason |-> IF hasConflict THEN <<startDate, td>> ELSE None]

\* Backward, lines 93-186: one pass of the loop body.
backwardSchedule(ops, g, sch, finalDueDate, td, opId) ==
    LET op == ops[opId]
        durationDays == calculateDurationDays(op)
        durationHours == calculateDurationHours(op)
        dueDate == backwardDueDate(ops, g, sch, finalDueDate, opId)
        pred == copiedPredecessor(ops, g, sch, opId)
        startDate == subtractBusinessDays(dueDate, durationDays)
        hasConflict == startDate < td
    IN  IF pred # NULL
        THEN [startDate |-> sch[pred].startDate,
              dueDate |-> sch[pred].dueDate,
              priority |-> PriorityOr(op, 99),
              durationHours |-> durationHours,
              durationDays |-> durationDays,
              hasConflict |-> sch[pred].hasConflict,
              conflictReason |-> sch[pred].conflictReason]
        ELSE [startDate |-> startDate,
              dueDate |-> dueDate,
              priority |-> PriorityOr(op, 99),
              durationHours |-> durationHours,
              durationDays |-> durationDays,
              hasConflict |-> hasConflict,
              conflictReason |-> IF hasConflict THEN <<startDate, td>> ELSE None]

\* Forward, lines 217-247.
\* The latest dependency due date without the operation's lead time.
forwardStartDateNoLead(ops, g, sch, startDate, opId) ==
    LET dependencies == getDependencies(g, opId)
        dependencyDueDates ==
            {sch[d].dueDate : d \in SeqToSet(dependencies) \cap DOMAIN sch}
    IN  IF Len(dependencies) = 0 \/ dependencyDueDates = {} THEN startDate
        ELSE SetMax(dependencyDueDates)

forwardStartDate(ops, g, sch, startDate, opId) ==
    LET dependencies == getDependencies(g, opId)
        dependencyDueDates ==
            {sch[d].dueDate : d \in SeqToSet(dependencies) \cap DOMAIN sch}
        leadTimeDays == ops[opId].operationLeadTime
    IN  IF Len(dependencies) = 0 \/ dependencyDueDates = {} THEN startDate
        ELSE IF leadTimeDays > 0
             THEN addBusinessDays(SetMax(dependencyDueDates), leadTimeDays)
             ELSE SetMax(dependencyDueDates)

\* Forward, lines 210-288: one pass of the loop body.
forwardSchedule(ops, g, sch, startDate, opId) ==
    LET op == ops[opId]
        durationDays == calculateDurationDays(op)
        durationHours == calculateDurationHours(op)
        opStartDate == forwardStartDate(ops, g, sch, startDate, opId)
        pred == copiedPredecessor(ops, g, sch, opId)
    IN  IF pred # NULL
        THEN [startDate |-> sch[pred].startDate,
              dueDate |-> sch[pred].dueDate,
              priority |-> PriorityOr(op, 99),
              durationHours |-> durationHours,
              durationDays |-> durationDays,
              hasConflict |-> FALSE,
              conflictReason |-> None]
        ELSE [startDate |-> opStartDate,
              dueDate |-> addBusinessDays(opStartDate, durationDays),
              priority |-> PriorityOr(op, 1),
              durationHours |-> durationHours,
              durationDays |-> durationDays,
              hasConflict |-> FALSE,
              conflictReason |-> None]

\* The loop over sortedIds of either strategy; an id with no operation in the
\* operation map is skipped (lines 94-95 and 211-212).
RECURSIVE scheduleLoop(_, _, _, _, _, _, _)
scheduleLoop(dir, ops, g, anchor, td, sortedIds, sch) ==
    IF sortedIds = <<>> THEN sch
    ELSE LET opId == Head(sortedIds)
             entry == IF dir = "backward"
                      THEN backwardSchedule(ops, g, sch, anchor, td, opId)
                      ELSE forwardSchedule(ops, g, sch, anchor, opId)
         IN  scheduleLoop(dir, ops, g, anchor, td, Tail(sortedIds),
                          IF opId \notin DOMAIN ops THEN sch
                          ELSE MapSet(sch, opId, entry))

\* jobDueDate || today, jobStartDate || today (lines 88 and 205).
anchorDate(date, td) == IF date = None THEN td ELSE ValueOf(date)

\* calculateOperationDates, lines 312-328, with the strategy of the direction.
calculateOperationDates(ops, g, date, dir, td) ==
    scheduleLoop(dir, ops, g, anchorDate(date, td), td,
                 topologicalSort(g, IF dir = "backward" THEN "reverse" ELSE "forward"),
                 EmptyMap)

-----------------------------------------------------------------------------
(* Priority assigner: assembly-handler.ts *)

DEADLINE_PRIORITY ==
    [dt \in {"ASAP", "Hard Deadline", "Soft Deadline", "No Deadline"} |->
        CASE dt = "ASAP" -> 0
          [] dt = "Hard Deadline" -> 1
          [] dt = "Soft Deadline" -> 2
          [] dt = "No Deadline" -> 3]

\* DEADLINE_PRIORITY[deadlineType || "No Deadline"] ?? 3
getDeadlinePriority(deadlineType) ==
    LET key == IF deadlineType = NULL THEN "No Deadline" ELSE deadlineType
    IN  IF key \in DOMAIN DEADLINE_PRIORITY THEN DEADLINE_PRIORITY[key] ELSE 3

\* jobPriority ?? 0
JobPriorityOr0(o) == IF o.jobPriority = None THEN 0 ELSE ValueOf(o.jobPriority)

\* lines 265-275 of the comparator: job priority, then deadline type.
compareAfterDate(a, b) ==
    IF JobPriorityOr0(a) # JobPriorityOr0(b)
    THEN JobPriorityOr0(a) - JobPriorityOr0(b)
    ELSE getDeadlinePriority(a.deadlineType) - getDeadlinePriority(b.deadlineType)

\* A comparator that stops at the job priority.
comparePriorityNoDeadline(a, b) ==
    IF a.startDate # None /\ b.startDate # None
    THEN IF ValueOf(a.startDate) - ValueOf(b.startDate) # 0
         THEN ValueOf(a.startDate) - ValueOf(b.startDate)
         ELSE JobPriorityOr0(a) - JobPriorityOr0(b)
    ELSE IF a.startDate # None THEN 0 - 1
         ELSE IF b.startDate # None THEN 1
              ELSE JobPriorityOr0(a) - JobPriorityOr0(b)

\* The comparator of sortOperationsByPriority, lines 253-276: negative when a
\* sorts before b.
comparePriority(a, b) ==
    IF a.startDate # None /\ b.startDate # None
    THEN IF ValueOf(a.startDate) - ValueOf(b.startDate) # 0
         THEN ValueOf(a.startDate) - ValueOf(b.startDate)
         ELSE compareAfterDate(a, b)
    ELSE IF a.startDate # None THEN 0 - 1
         ELSE IF b.startDate # None THEN 1
              ELSE compareAfterDate(a, b)

\* Array.prototype.sort is stable: x goes before the first element that the
\* comparator puts after it.
RECURSIVE InsertByPriority(_, _)
InsertByPriority(sorted, x) ==
    IF sorted = <<>> THEN <<x>>
    ELSE IF comparePriority(Head(sorted), x) <= 0
         THEN <<Head(sorted)>> \o InsertByPriority(Tail(sorted), x)
         ELSE <<x>> \o sorted

RECURSIVE sortOperationsByPriority(_)
sortOperationsByPriority(ops) ==
    IF ops = <<>> THEN <<>>
    ELSE InsertByPriority(sortOperationsByPriority(SubSeq(ops, 1, Len(ops) - 1)),
                          ops[Len(ops)])

\* assignSequentialPriorities, lines 283-293: index + 1 (indices from 0 there,
\* positions from 1 here).
assignSequentialPriorities(sortedOperations) ==
    [id \in {sortedOperations[i].id : i \in 1..Len(sortedOperations)} |->
        CHOOSE i \in 1..Len(sortedOperations) :
            /\ sortedOperations[i].id = id
            /\ \A j \in (i + 1)..Len(sortedOperations) : sortedOperations[j].id # id]

\* groupOperationsByWorkCenter, lines 312-326: the group of one work center id
\* (null is a key like any other), in the order of the operations.
groupOfWorkCenter(ops, wcId) == SelectSeq(ops, LAMBDA o : o.workCenterId = wcId)

\* calculatePrioritiesByWorkCenter, lines 332-355.
calculatePrioritiesByWorkCenter(ops) ==
    LET keys == {ops[i].workCenterId : i \in 1..Len(ops)}
        ofGroup(wcId) ==
            assignSequentialPriorities(sortOperationsByPriority(groupOfWorkCenter(ops, wcId)))
    IN  [id \in {ops[i].id : i \in 1..Len(ops)} |->
            LET o == ops[CHOOSE i \in 1..Len(ops) : ops[i].id = id]
            IN  ofGroup(o.workCenterId)[id]]

\* toOperationWithJobInfo, lines 361-375.
toOperationWithJobInfo(id, operation, jobPriority, jobDeadlineType) ==
    [id |-> id,
     dueDate |-> Some(operation.dueDate),
     startDate |-> Some(operation.startDate),
     priority |-> Some(operation.priority),
     deadlineType |-> IF operation.deadlineType = NULL THEN jobDeadlineType
                      ELSE operation.deadlineType,
     jobPriority |-> jobPriority,
     workCenterId |-> operation.workCenterId]

\* applyPriorities, lines 380-395: priorities.get(opId) ?? op.priority
applyPriorities(ops, prio) ==
    [id \in DOMAIN ops |->
        IF id \in DOMAIN prio THEN [ops[id] EXCEPT !.priority = prio[id]] ELSE ops[id]]

-----------------------------------------------------------------------------
(* Work-center selector: dependency-manager.ts, WorkCenterSelector *)

\* initialize, lines 332-339: a process's work centers that are active at the
\* location, in the order of the process's list.
workCentersByProcess(processes, activeWorkCenters, processId) ==
    IF processId \in DOMAIN processes
    THEN SelectSeq(processes[processId], LAMBDA wcId : wcId \in activeWorkCenters)
    ELSE <<>>

RECURSIVE SumHours(_, _)
SumHours(db, rowIds) ==
    IF rowIds = {} THEN 0
    ELSE LET r == CHOOSE x \in rowIds : TRUE
         IN  calculateDurationHours(db[r]) + SumHours(db, rowIds \ {r})

\* calculateLoadBeforeDate, lines 359-401: the rows of the work center that
\* are not Done or Canceled and start on or before beforeDate or have no
\* start date; the company is the same for every row here.
calculateLoadBeforeDate(db, workCenterId, beforeDate) ==
    SumHours(db, {r \in DOMAIN db :
                     /\ db[r].workCenterId = workCenterId
                     /\ db[r].status \notin {"Done", "Canceled"}
                     /\ \/ db[r].startDate = None
                        \/ ValueOf(db[r].startDate) <= beforeDate})

getInMemoryLoad(tally, workCenterId) ==
    IF workCenterId \in DOMAIN tally THEN tally[workCenterId] ELSE 0

\* The hours replace the tally of the work center instead of adding to it.
setInMemoryLoad(tally, workCenterId, hours) == MapSet(tally, workCenterId, hours)

addInMemoryLoad(tally, workCenterId, hours) ==
    MapSet(tally, workCenterId, getInMemoryLoad(tally, workCenterId) + hours)

\* A loop that takes the later work center on a tie.
RECURSIVE leastLoadedLastOnTie(_, _, _, _, _)
leastLoadedLastOnTie(db, tally, workCenters, beforeDate, best) ==
    IF workCenters = <<>> THEN best
    ELSE LET wcId == Head(workCenters)
             totalLoad == calculateLoadBeforeDate(db, wcId, beforeDate)
                              + getInMemoryLoad(tally, wcId)
         IN  leastLoadedLastOnTie(db, tally, Tail(workCenters), beforeDate,
                         IF best.workCenterId = NULL \/ totalLoad <= best.load
                         THEN [workCenterId |-> wcId, load |-> totalLoad]
                         ELSE best)

\* selectWorkCenter, lines 472-483: best = [workCenterId, load], or NULL
\* while lowestLoad is Infinity.
RECURSIVE leastLoaded(_, _, _, _, _)
leastLoaded(db, tally, workCenters, beforeDate, best) ==
    IF workCenters = <<>> THEN best
    ELSE LET wcId == Head(workCenters)
             totalLoad == calculateLoadBeforeDate(db, wcId, beforeDate)
                              + getInMemoryLoad(tally, wcId)
         IN  leastLoaded(db, tally, Tail(workCenters), beforeDate,
                         IF best.workCenterId = NULL \/ totalLoad < best.load
                         THEN [workCenterId |-> wcId, load |-> totalLoad]
                         ELSE best)

\* selectWorkCenter, lines 444-498: the selection's workCenterId, NULL when it
\* carries an error.
getWorkCentersForProcess(wcs, processId) ==
    IF processId \in DOMAIN wcs THEN wcs[processId] ELSE <<>>

selectWorkCenter(db, tally, wcs, processId, scheduledStartDate) ==
    IF processId = NULL THEN NULL
    ELSE leastLoaded(db, tally, getWorkCentersForProcess(wcs, processId),
                     scheduledStartDate,
                     [workCenterId |-> NULL, load |-> 0]).workCenterId

\* selectWorkCentersForOperations, lines 514-519: stable sort by start date
\* (every scheduled operation has one).
RECURSIVE InsertByStartDate(_, _, _)
InsertByStartDate(sch, sorted, id) ==
    IF sorted = <<>> THEN <<id>>
    ELSE IF sch[Head(sorted)].startDate <= sch[id].startDate
         THEN <<Head(sorted)>> \o InsertByStartDate(sch, Tail(sorted), id)
         ELSE <<id>> \o sorted

RECURSIVE SortByStartDate(_, _)
SortByStartDate(sch, ids) ==
    IF ids = <<>> THEN <<>>
    ELSE InsertByStartDate(sch, SortByStartDate(sch, SubSeq(ids, 1, Len(ids) - 1)),
                           ids[Len(ids)])

\* lines 521-538: the loop; st = [selections: id -> workCenterId or NULL,
\* tally: the in-memory load].
RECURSIVE selectLoop(_, _, _, _, _)
selectLoop(db, wcs, sch, sorted, st) ==
    IF sorted = <<>> THEN st
    ELSE LET id == Head(sorted)
             op == sch[id]
             wcId == selectWorkCenter(db, st.tally, wcs, op.processId, op.startDate)
         IN  selectLoop(db, wcs, sch, Tail(sorted),
                 IF op.operationType = "Outside" THEN st
                 ELSE [selections |-> MapSet(st.selections, id, wcId),
                       tally |-> IF wcId # NULL
                                 THEN addInMemoryLoad(st.tally, wcId, op.durationHours)
                                 ELSE st.tally])

\* selectWorkCentersForOperations, lines 505-541: the tally starts empty.
selectWorkCentersForOperations(db, wcs, sch, ids) ==
    selectLoop(db, wcs, sch, SortByStartDate(sch, ids),
               [selections |-> EmptyMap, tally |-> EmptyMap]).selections

\* Every selection is written, a failed one as a cleared workCenterId.
applyEverySelection(sch, selections) ==
    [id \in DOMAIN sch |->
        IF id \in DOMAIN selections
        THEN [sch[id] EXCEPT !.workCenterId = selections[id]]
        ELSE sch[id]]

\* applyWorkCenterSelections, lines 547-566.
applyWorkCenterSelections(sch, selections) ==
    [id \in DOMAIN sch |->
        IF id \in DOMAIN selections /\ selections[id] # NULL
        THEN [sch[id] EXCEPT !.workCenterId = selections[id]]
        ELSE sch[id]]

-----------------------------------------------------------------------------
(* Engine: the sequence of one invocation (scheduling-engine.ts) *)

\* The operations as the engine loads them: the rows of the job.
operationOfRow(row) ==
    [order |-> row.order, operationOrder |-> row.operationOrder,
     operationLeadTime |-> row.operationLeadTime,
     setupTime |-> row.setupTime, laborTime |-> row.laborTime,
     machineTime |-> row.machineTime, priority |-> row.priority,
     processId |-> row.processId, operationType |-> row.operationType,
     status |-> row.status, deadlineType |-> row.deadlineType,
     workCenterId |-> row.workCenterId]

\* Steps 3 to 7 of the engine for the job's operations: edges from the
\* dependency builder, the strategy's dates, the work-center selection over
\* the scheduled operations in the order they were scheduled, the priorities
\* per work center.
engineSchedule(db, wcs, jobIds, date, dir, td, jobPriority, jobDeadlineType) ==
    LET ops == [id \in SeqToSet(jobIds) |-> operationOfRow(db[id])]
        g == DependencyGraphImpl(
                 jobIds,
                 dependenciesToRecords(buildOperationDependencies(ops, jobIds), jobIds),
                 SeqToSet(jobIds))
        dates == calculateOperationDates(ops, g, date, dir, td)
        sch == [id \in DOMAIN dates |->
                   dates[id] @@ [processId |-> ops[id].processId,
                                 operationType |-> ops[id].operationType,
                                 deadlineType |-> ops[id].deadlineType,
                                 workCenterId |-> ops[id].workCenterId]]
        order == SelectSeq(topologicalSort(g, IF dir = "backward" THEN "reverse" ELSE "forward"),
                           LAMBDA id : id \in DOMAIN sch)
        withWc == applyWorkCenterSelections(
                      sch, selectWorkCentersForOperations(db, wcs, sch, order))
        infos == [i \in 1..Len(order) |->
                     toOperationWithJobInfo(order[i], withWc[order[i]],
                                            jobPriority, jobDeadlineType)]
    IN  applyPriorities(withWc, calculatePrioritiesByWorkCenter(infos))

\* Step 8: the rows of the scheduled operations get startDate, dueDate,
\* workCenterId and priority.
persistOperations(db, sch) ==
    [r \in DOMAIN db |->
        IF r \in DOMAIN sch
        THEN [db[r] EXCEPT !.startDate = Some(sch[r].startDate),
                           !.dueDate = Some(sch[r].dueDate),
                           !.workCenterId = sch[r].workCenterId,
                           !.priority = Some(sch[r].priority)]
        ELSE db[r]]

-----------------------------------------------------------------------------
(* Bounds of the graph specification *)

\* Dependency records handed to the constructor.
MaxRecords == 1
\* addDependency calls made on the constructed graph.
MaxAddCalls == 2

\* The operation lists the constructor is given: in the second, "C" is an id
\* that names no node.
GraphOpLists == {OpOrder, SubSeq(OpOrder, 1, 2)}

RecordPairs == OpIds \X OpIds

\* A cycle among the nodes: some node reaches itself along dependsOn edges.
RECURSIVE ReachFrom(_, _, _)
ReachFrom(g, frontier, seen) ==
    LET next == {y \in SeqToSet(g.ids) :
                    \E x \in frontier : InSeq(y, g.dependsOn[x])} \ seen
    IN  IF next = {} THEN seen ELSE ReachFrom(g, next, seen \cup next)

HasCycle(g) == \E x \in SeqToSet(g.ids) : x \in ReachFrom(g, {x}, {})

-----------------------------------------------------------------------------
(* Specification SpecGraph: construct a graph, add dependencies, sort it *)

\* The variables of the other specifications, at rest.
PrioIdle == prioInput = <<>> /\ priorities = EmptyMap
SelIdle == processTable = EmptyMap /\ activeTable = {} /\ wcSelections = EmptyMap
ReqIdle == request = NULL /\ response = NULL /\ depRows = <<>> /\ prevDepRows = <<>>
QueueIdle == taskQueue = <<>> /\ running = {} /\ triggered = 0
ConcIdle == selectorRuns = EmptyMap
TreeIdle == assemblyTree = NULL
BatchIdle == selector = NULL
OtherIdle == SelIdle /\ ReqIdle /\ QueueIdle /\ ConcIdle /\ TreeIdle /\ BatchIdle
PipeIdle == rows = EmptyMap /\ prevRows = EmptyMap /\ runs = 0 /\ OtherIdle

InitGraph ==
    /\ pc = "built"
    /\ \E opIds \in GraphOpLists, records \in DistinctSeqs(RecordPairs, MaxRecords) :
          graph = DependencyGraphImpl(opIds, records, OpIds)
    /\ addCalls = 0
    /\ sortResult = <<>>
    /\ sortOutcome = NULL
    /\ direction = NULL
    /\ operations = EmptyMap
    /\ today = 0
    /\ jobDate = None
    /\ scheduled = EmptyMap
    /\ firstRun = EmptyMap
    /\ PrioIdle
    /\ PipeIdle

GraphAddDependency(operationId, dependsOnId) ==
    /\ pc = "built"
    /\ addCalls < MaxAddCalls
    /\ graph' = addDependency(graph, operationId, dependsOnId)
    /\ addCalls' = addCalls + 1
    /\ UNCHANGED <<pc, direction, sortResult, sortOutcome, schedVars, prioVars, pipeVars>>

GraphTopologicalSort(dir) ==
    /\ pc = "built"
    /\ sortResult' = topologicalSort(graph, dir)
    /\ sortOutcome' = topologicalSortOutcome(graph, dir)
    /\ direction' = dir
    /\ pc' = "sorted"
    /\ UNCHANGED <<graph, addCalls, schedVars, prioVars, pipeVars>>

NextGraph ==
    \/ \E x \in OpIds, y \in OpIds : GraphAddDependency(x, y)
    \/ \E dir \in {"forward", "reverse"} : GraphTopologicalSort(dir)

SpecGraph == InitGraph /\ [][NextGraph]_vars

\* C9: when the dependency graph contains a cycle, topologicalSort (either
\* direction) fails with a CycleDetected error instead of returning an order
\* shorter than the node count.
C9_CycleDetected ==
    (pc = "sorted" /\ HasCycle(graph)) => sortOutcome = "CycleDetected"

\* What the code does on a cyclic graph: it returns normally, with an order
\* that leaves out at least the nodes of the cycle.
C9_CodeReturnsShortOrder ==
    (pc = "sorted" /\ HasCycle(graph)) =>
        /\ sortOutcome = "returned"
        /\ Len(sortResult) < Len(graph.ids)

\* C10: edge symmetry: after the constructor and after any sequence of
\* addDependency(x, y) calls with arbitrary ids, for all ids a, b: a is in
\* dependsOn(b) if and only if b is in requiredBy(a).
C10_EdgeSymmetry ==
    \A a \in OpIds, b \in OpIds :
        InSeq(a, getDependencies(graph, b)) <=> InSeq(b, getDependents(graph, a))

\* What the code keeps: symmetry between ids that are both nodes.
C10_SymmetryAmongNodes ==
    \A a \in OpIds, b \in OpIds :
        (IsNode(graph, a) /\ IsNode(graph, b)) =>
            (InSeq(a, getDependencies(graph, b)) <=> InSeq(b, getDependents(graph, a)))

-----------------------------------------------------------------------------
(* Specification SpecSched: one job's operations and graph, a run of a      *)
(* strategy, and a forward run anchored at the backward run's earliest start *)

\* Longest operation, in working days, and longest lead time, in business days.
MaxDays == 3
MaxLead == 1

\* Setup times in hours that make durations of 1..MaxDays working days, none
\* a whole number of workdays.
SetupTimes == {HOURS_PER_WORKDAY * k - 4 : k \in 1..MaxDays}

\* Job dates: Friday 2025-01-17 and Sunday 2025-01-19.
JobDates == {20105, 20107}
\* The days a run is made on: Monday 2025-01-13 and Saturday 2025-01-18.
TodayDates == {20101, 20106}

\* Dependency records between the job's operations that point from an
\* operation to one earlier in the order, as same-method and cross-method
\* edges do; any sequence of them makes an acyclic graph.
EarlierPairs ==
    {<<OpOrder[i], OpOrder[j]>> : i \in 1..Len(OpOrder), j \in 1..Len(OpOrder)} \cap
    {pr \in OpIds \X OpIds : IndexOf(pr[2], OpOrder) < IndexOf(pr[1], OpOrder)}

SchedRecords == DistinctSeqs(EarlierPairs, Cardinality(EarlierPairs))

BaseOperation(ord, operationOrder, lead, setup) ==
    [order |-> ord, operationOrder |-> operationOrder, operationLeadTime |-> lead,
     setupTime |-> setup, laborTime |-> 0, machineTime |-> 0, priority |-> None,
     processId |-> "P1", operationType |-> "Inside", status |-> "Ready",
     deadlineType |-> NULL]

InitSched ==
    /\ pc = "loaded"
    /\ \E oo \in [OpIds -> {AfterPrevious, WithPrevious}],
          lead \in [OpIds -> 0..MaxLead],
          setup \in [OpIds -> SetupTimes] :
          \* The first operation has no dependency under EarlierPairs, so its
          \* lead time and its operationOrder are never read: one value each.
          /\ oo[OpOrder[1]] = AfterPrevious
          /\ lead[OpOrder[1]] = 0
          /\ operations = [id \in OpIds |->
                           BaseOperation(IndexOf(id, OpOrder), oo[id], lead[id], setup[id])]
    /\ \E records \in SchedRecords : graph = DependencyGraphImpl(OpOrder, records, OpIds)
    /\ addCalls = 0
    /\ sortResult = <<>>
    /\ sortOutcome = NULL
    /\ direction = NULL
    /\ today = 0
    /\ jobDate = None
    /\ scheduled = EmptyMap
    /\ firstRun = EmptyMap
    /\ PrioIdle
    /\ PipeIdle

CalculateDates(dir, td, date) ==
    /\ pc = "loaded"
    /\ direction' = dir
    /\ today' = td
    /\ jobDate' = date
    /\ scheduled' = calculateOperationDates(operations, graph, date, dir, td)
    /\ pc' = "scheduled"
    /\ UNCHANGED <<operations, firstRun, graphVars, prioVars, pipeVars>>

ScheduledIds(sch) == DOMAIN sch

EarliestStart(sch) == SetMin({sch[id].startDate : id \in ScheduledIds(sch)})

LatestDue(sch) == SetMax({sch[id].dueDate : id \in ScheduledIds(sch)})

\* The forward run of the round trip: same operations and graph, anchored at
\* the earliest start date of the backward schedule.
RoundTripForward ==
    /\ pc = "scheduled"
    /\ direction = "backward"
    /\ ScheduledIds(scheduled) # {}
    /\ firstRun' = scheduled
    /\ scheduled' = calculateOperationDates(operations, graph, Some(EarliestStart(scheduled)),
                                            "forward", today)
    /\ direction' = "forward"
    /\ pc' = "roundtrip"
    /\ UNCHANGED <<operations, today, jobDate, graphVars, prioVars, pipeVars>>

NextSched ==
    \/ \E dir \in {"backward", "forward"}, td \in TodayDates,
          date \in {Some(d) : d \in JobDates} \cup {None} :
          CalculateDates(dir, td, date)
    \/ RoundTripForward

SpecSched == InitSched /\ [][NextSched]_vars

HasSchedule == pc \in {"scheduled", "roundtrip"}

\* The graph holds exactly the edges buildOperationDependencies derives.
EdgesFromBuilder ==
    graph = DependencyGraphImpl(
                OpOrder,
                dependenciesToRecords(buildOperationDependencies(operations, OpOrder), OpOrder),
                OpIds)

\* Number of business days from start to due: the weekdays after start up to due.
BusinessDaysBetween(start, due) == Cardinality({d \in (start + 1)..due : ~IsWeekend(d)})

Precedes(a, b) ==
    (a \in DOMAIN scheduled /\ b \in DOMAIN scheduled /\ InSeq(a, getDependencies(graph, b)))
        => scheduled[a].dueDate <= scheduled[b].startDate

\* C1: backward scheduling: for every pair of scheduled operations (a, b)
\* with a in dependsOn(b), a.dueDate <= b.startDate.
C1_BackwardPrecedence ==
    (HasSchedule /\ direction = "backward") =>
        \A a \in OpIds, b \in OpIds : Precedes(a, b)

\* A backward schedule of a chain a -> b -> c of operations longer than a
\* day, where a also precedes c: a is due the day b starts (no lead time), b
\* is due before c starts (lead time), and the run was made after the start
\* dates, so the operations carry conflicts.
C1_Witness ==
    /\ pc = "scheduled"
    /\ direction = "backward"
    /\ \E a \in OpIds, b \in OpIds, c \in OpIds :
          /\ InSeq(a, getDependencies(graph, b))
          /\ InSeq(b, getDependencies(graph, c))
          /\ InSeq(a, getDependencies(graph, c))
          /\ operations[b].operationLeadTime = 0
          /\ operations[c].operationLeadTime > 0
          /\ scheduled[b].durationDays > 1
          /\ scheduled[a].dueDate = scheduled[b].startDate
          /\ scheduled[b].dueDate < scheduled[c].startDate
          /\ scheduled[a].dueDate < scheduled[c].startDate
          /\ scheduled[a].hasConflict

\* Every operation is After Previous, takes one day and has no lead time,
\* and the edges are the builder's: the chain A, B, C.
ChainOfOneDay ==
    /\ EdgesFromBuilder
    /\ \A o \in OpIds : /\ operations[o].operationOrder = AfterPrevious
                        /\ operations[o].operationLeadTime = 0
                        /\ calculateDurationDays(operations[o]) = 1

OneDayOn(o, date) == scheduled[o].startDate = date /\ scheduled[o].dueDate = date

\* C16: linear chain, backward: the last of a chain of 1-day operations
\* starts and is due on the job due date and each earlier one starts and is
\* due one business day before its successor; with job due date Friday
\* 2025-01-17: A on 2025-01-15, B on 2025-01-16, C on 2025-01-17.
C16_LinearChainBackward ==
    (pc = "scheduled" /\ direction = "backward" /\ ChainOfOneDay) =>
        /\ OneDayOn(OpOrder[Len(OpOrder)], anchorDate(jobDate, today))
        /\ \A i \in 1..(Len(OpOrder) - 1) :
              OneDayOn(OpOrder[i],
                       subtractBusinessDays(scheduled[OpOrder[i + 1]].startDate, 1))
        /\ jobDate = Some(20105) =>
              OneDayOn("A", 20103) /\ OneDayOn("B", 20104) /\ OneDayOn("C", 20105)

\* What the code yields for the chain due Friday 2025-01-17: each operation
\* starts one business day before it is due, at the due date of the one before.
C16_ChainAsComputed ==
    (pc = "scheduled" /\ direction = "backward" /\ ChainOfOneDay /\ jobDate = Some(20105)) =>
        /\ scheduled["C"].startDate = 20104 /\ scheduled["C"].dueDate = 20105
        /\ scheduled["B"].startDate = 20103 /\ scheduled["B"].dueDate = 20104
        /\ scheduled["A"].startDate = 20102 /\ scheduled["A"].dueDate = 20103

\* The operations [A, B (With Previous), C], one day each, no lead time,
\* with the builder's edges: C depends on A and on B.
WithPreviousGroup ==
    /\ EdgesFromBuilder
    /\ operations["A"].operationOrder = AfterPrevious
    /\ operations["B"].operationOrder = WithPrevious
    /\ operations["C"].operationOrder = AfterPrevious
    /\ \A o \in OpIds : /\ operations[o].operationLeadTime = 0
                        /\ calculateDurationDays(operations[o]) = 1

\* C17: With-Previous group, backward, job due 2025-01-17: A and B both
\* start and are due on 2025-01-16, C starts and is due on 2025-01-17.
C17_WithPreviousGroupBackward ==
    (pc = "scheduled" /\ direction = "backward" /\ WithPreviousGroup
        /\ jobDate = Some(20105)) =>
        OneDayOn("A", 20104) /\ OneDayOn("B", 20104) /\ OneDayOn("C", 20105)

\* What the code yields for the group: A and B share their dates, a
\* business day earlier at each end.
C17_GroupAsComputed ==
    (pc = "scheduled" /\ direction = "backward" /\ WithPreviousGroup
        /\ jobDate = Some(20105)) =>
        /\ scheduled["C"].startDate = 20104 /\ scheduled["C"].dueDate = 20105
        /\ \A o \in {"A", "B"} :
              scheduled[o].startDate = 20103 /\ scheduled[o].dueDate = 20104

\* C19: conflict detection, backward: hasConflict is true exactly when the
\* startDate is earlier than today, conflictReason is non-null exactly when
\* hasConflict is true, and a 3-day operation that is due today starts three
\* business days before today with hasConflict true.
C19_ConflictDetection ==
    (pc = "scheduled" /\ direction = "backward") =>
        \A o \in ScheduledIds(scheduled) :
            /\ scheduled[o].hasConflict <=> scheduled[o].startDate < today
            /\ scheduled[o].conflictReason # None <=> scheduled[o].hasConflict
            /\ scheduled[o].hasConflict => scheduled[o].conflictReason = <<scheduled[o].startDate, today>>
            /\ (scheduled[o].dueDate = today /\ scheduled[o].durationDays = 3) =>
                  /\ scheduled[o].hasConflict
                  /\ ~IsWeekend(scheduled[o].startDate)
                  /\ Cardinality({d \in scheduled[o].startDate..(today - 1) :
                                      ~IsWeekend(d)}) = 3

\* A run on Monday 2025-01-13 for a job due Friday 2025-01-17: a 3-day
\* operation is due today, starts Wednesday 2025-01-08 and conflicts, and
\* its dependent starts after today and does not conflict.
C19_Witness ==
    /\ pc = "scheduled"
    /\ direction = "backward"
    /\ today = 20101
    /\ jobDate = Some(20105)
    /\ \E o \in OpIds, c \in OpIds :
          /\ InSeq(c, getDependents(graph, o))
          /\ scheduled[o].durationDays = 3
          /\ scheduled[o].dueDate = today
          /\ scheduled[o].startDate = 20096
          /\ scheduled[o].hasConflict
          /\ scheduled[o].conflictReason = <<20096, 20101>>
          /\ scheduled[c].startDate > today
          /\ ~scheduled[c].hasConflict
          /\ scheduled[c].conflictReason = None

\* C2: forward scheduling: for every pair of scheduled operations (a, b)
\* with a in dependsOn(b), a.dueDate <= b.startDate, With Previous included.
C2_ForwardPrecedence ==
    (HasSchedule /\ direction = "forward") =>
        \A a \in OpIds, b \in OpIds : Precedes(a, b)

\* The same-method predecessor of a "With Previous" operation o: the
\* operation that is not "With Previous" at the order o runs at.
SameMethodPredecessor(o, p) ==
    /\ operations[o].operationOrder = WithPrevious
    /\ operations[p].operationOrder # WithPrevious
    /\ p # o
    /\ IndexOf(p, OpOrder) = adjustedOrder(operations, OpOrder, IndexOf(o, OpOrder))

\* C3: in both directions, with the edges of buildOperationDependencies,
\* every scheduled operation o marked With Previous that has a same-method
\* predecessor p has o.startDate = p.startDate and o.dueDate = p.dueDate.
C3_SameDatesAsPredecessor ==
    (HasSchedule /\ EdgesFromBuilder) =>
        \A o \in ScheduledIds(scheduled), p \in ScheduledIds(scheduled) :
            SameMethodPredecessor(o, p) =>
                /\ scheduled[o].startDate = scheduled[p].startDate
                /\ scheduled[o].dueDate = scheduled[p].dueDate

\* C4: for every scheduled operation, the number of business days from its
\* startDate to its dueDate is at least durationDays - 1.
C4_DurationWindow ==
    HasSchedule =>
        \A o \in ScheduledIds(scheduled) :
            BusinessDaysBetween(scheduled[o].startDate, scheduled[o].dueDate)
                >= scheduled[o].durationDays - 1

\* C5: every startDate and dueDate emitted falls on Monday..Friday, for every
\* anchor date.
C5_NoWeekendDates ==
    HasSchedule =>
        \A o \in ScheduledIds(scheduled) :
            ~IsWeekend(scheduled[o].startDate) /\ ~IsWeekend(scheduled[o].dueDate)

\* C7: round trip: backward with anchor D, then forward anchored at the
\* earliest start: the latest dueDate of the forward schedule is <= D.
C7_RoundTrip ==
    (pc = "roundtrip" /\ ScheduledIds(scheduled) # {}) =>
        LatestDue(scheduled) <= anchorDate(jobDate, today)

-----------------------------------------------------------------------------
(* Specification SpecPrio: a list of operations with their job's data is put *)
(* together and calculatePrioritiesByWorkCenter ranks it                     *)

StartDateChoices == {None, Some(20105), Some(20106)}
JobPriorityChoices == {None, Some(1)}
DeadlineChoices == {NULL, "ASAP", "Hard Deadline", "Soft Deadline", "No Deadline"}
WorkCenterChoices == {NULL, "W1"}

InitPrio ==
    /\ pc = "collecting"
    /\ prioInput = <<>>
    /\ priorities = EmptyMap
    /\ direction = NULL
    /\ graph = EmptyGraph(<<>>, OpIds)
    /\ addCalls = 0
    /\ sortResult = <<>>
    /\ sortOutcome = NULL
    /\ operations = EmptyMap
    /\ today = 0
    /\ jobDate = None
    /\ scheduled = EmptyMap
    /\ firstRun = EmptyMap
    /\ PipeIdle

\* The next operation of the list, with the id that follows in OpOrder.
AddOperationInfo(startDate, jobPriority, deadlineType, workCenterId) ==
    /\ pc = "collecting"
    /\ Len(prioInput) < Len(OpOrder)
    /\ prioInput' = Append(prioInput,
                           [id |-> OpOrder[Len(prioInput) + 1],
                            dueDate |-> startDate,
                            startDate |-> startDate,
                            priority |-> None,
                            deadlineType |-> deadlineType,
                            jobPriority |-> jobPriority,
                            workCenterId |-> workCenterId])
    /\ UNCHANGED <<pc, direction, priorities, graphVars, schedVars, pipeVars>>

CalculatePriorities ==
    /\ pc = "collecting"
    /\ priorities' = calculatePrioritiesByWorkCenter(prioInput)
    /\ pc' = "prioritized"
    /\ UNCHANGED <<direction, prioInput, graphVars, schedVars, pipeVars>>

NextPrio ==
    \/ \E sd \in StartDateChoices, jp \in JobPriorityChoices,
          dt \in DeadlineChoices, wc \in WorkCenterChoices :
          AddOperationInfo(sd, jp, dt, wc)
    \/ CalculatePriorities

SpecPrio == InitPrio /\ [][NextPrio]_vars

\* The sort order the priorities are to follow, stated on the keys: start
\* date ascending with null last, then job priority ascending with null as
\* 0, then the deadline rank.
StartRank(o) == IF o.startDate = None THEN <<1, 0>> ELSE <<0, ValueOf(o.startDate)>>

DeadlineRank(o) ==
    CASE o.deadlineType = "ASAP" -> 0
      [] o.deadlineType = "Hard Deadline" -> 1
      [] o.deadlineType = "Soft Deadline" -> 2
      [] OTHER -> 3

SortKey(o) == StartRank(o) \o <<JobPriorityOr0(o), DeadlineRank(o)>>

KeyLess(k1, k2) ==
    \E i \in 1..Len(k1) : k1[i] < k2[i] /\ \A j \in 1..(i - 1) : k1[j] = k2[j]

Bucket(wcId) == {i \in 1..Len(prioInput) : prioInput[i].workCenterId = wcId}

\* C8: within every work-center bucket (null being its own bucket) the
\* priorities are exactly 1..n with no gap and no duplicate, and they
\* increase strictly along the sort order.
C8_PriorityPartition ==
    pc = "prioritized" =>
        \A wc \in WorkCenterChoices :
            /\ {priorities[prioInput[i].id] : i \in Bucket(wc)} = 1..Cardinality(Bucket(wc))
            /\ \A i \in Bucket(wc), j \in Bucket(wc) :
                  /\ i # j => priorities[prioInput[i].id] # priorities[prioInput[j].id]
                  /\ KeyLess(SortKey(prioInput[i]), SortKey(prioInput[j]))
                        => priorities[prioInput[i].id] < priorities[prioInput[j].id]

\* A bucket of three operations given out of order: the last one given sorts
\* first by its deadline rank alone, the first one given has no start date.
C8_Witness ==
    /\ pc = "prioritized"
    /\ \E wc \in WorkCenterChoices :
          /\ Cardinality(Bucket(wc)) = Len(OpOrder)
          /\ prioInput[1].startDate = None
          /\ prioInput[2].startDate = prioInput[3].startDate
          /\ JobPriorityOr0(prioInput[2]) = JobPriorityOr0(prioInput[3])
          /\ DeadlineRank(prioInput[3]) < DeadlineRank(prioInput[2])
          /\ priorities[prioInput[3].id] = 1
          /\ priorities[prioInput[1].id] = Len(OpOrder)

-----------------------------------------------------------------------------
(* Specification SpecPipe: the engine runs on one job, backward, again and   *)
(* again, with nothing else written to storage in between                    *)

\* Runs of the engine on the job.
MaxRuns == 2

\* Storage: one process, whose two work centers are active at the location.
Processes == [p \in {"P1"} |-> <<"W1", "W2">>]
ActiveWorkCenters == {"W1", "W2"}

SelectorWorkCenters ==
    [p \in DOMAIN Processes |-> workCentersByProcess(Processes, ActiveWorkCenters, p)]

\* The row of another job's operation, of 4 hours and with no start date.
OtherRowId == "X"

JobOperationRow(jobId, ord, operationOrder, lead, setup, workCenterId) ==
    [jobId |-> jobId, order |-> ord, operationOrder |-> operationOrder,
     operationLeadTime |-> lead, setupTime |-> setup, laborTime |-> 0,
     machineTime |-> 0, priority |-> None, processId |-> "P1",
     operationType |-> "Inside", status |-> "Ready", deadlineType |-> NULL,
     workCenterId |-> workCenterId, startDate |-> None, dueDate |-> None]

InitPipe ==
    /\ pc = "idle"
    /\ direction = "backward"
    /\ \E oo \in [OpIds -> {AfterPrevious, WithPrevious}],
          lead \in [OpIds -> 0..MaxLead],
          setup \in [OpIds -> SetupTimes],
          otherWc \in {NULL} \cup ActiveWorkCenters :
          /\ oo[OpOrder[1]] = AfterPrevious
          /\ lead[OpOrder[1]] = 0
          /\ rows = [r \in OpIds \cup {OtherRowId} |->
                        IF r = OtherRowId
                        THEN JobOperationRow("J2", 1, AfterPrevious, 0, 4, otherWc)
                        ELSE JobOperationRow("J1", IndexOf(r, OpOrder), oo[r],
                                             lead[r], setup[r], NULL)]
    /\ prevRows = EmptyMap
    /\ runs = 0
    /\ today \in TodayDates
    /\ jobDate \in {Some(d) : d \in JobDates} \cup {None}
    /\ graph = EmptyGraph(<<>>, OpIds)
    /\ addCalls = 0
    /\ sortResult = <<>>
    /\ sortOutcome = NULL
    /\ operations = EmptyMap
    /\ scheduled = EmptyMap
    /\ firstRun = EmptyMap
    /\ PrioIdle
    /\ OtherIdle

\* One invocation of the engine for the job, direction backward.
RunEngine ==
    /\ runs < MaxRuns
    /\ prevRows' = rows
    /\ rows' = persistOperations(
                   rows,
                   engineSchedule(rows, SelectorWorkCenters, OpOrder, jobDate,
                                  direction, today, None, NULL))
    /\ runs' = runs + 1
    /\ pc' = "persisted"
    /\ UNCHANGED <<direction, graphVars, schedVars, prioVars, otherVars>>

NextPipe == RunEngine

SpecPipe == InitPipe /\ [][NextPipe]_vars

SameSchedule(r1, r2) ==
    /\ r1.startDate = r2.startDate
    /\ r1.dueDate = r2.dueDate
    /\ r1.workCenterId = r2.workCenterId
    /\ r1.priority = r2.priority

\* C6: idempotence: a second backward run in succession on the same job, with
\* nothing else changed in storage, yields the same startDate, dueDate,
\* workCenterId and priority for every operation as the first run produced.
C6_Idempotent ==
    runs >= 2 => \A id \in OpIds : SameSchedule(rows[id], prevRows[id])

\* What the second run does keep: the dates.
C6_DatesRepeat ==
    runs >= 2 =>
        \A id \in OpIds : /\ rows[id].startDate = prevRows[id].startDate
                          /\ rows[id].dueDate = prevRows[id].dueDate

-----------------------------------------------------------------------------
(* Specification SpecSelect: a selector is initialized from storage and      *)
(* selects work centers for a batch of scheduled operations, and the         *)
(* wcSelections are applied                                                    *)

\* The batch, in the order it is handed over.
SelOrder == <<"A", "B">>
SelIds == {SelOrder[i] : i \in 1..Len(SelOrder)}

\* Storage: process X with W1, W2 and process Y with W3; any of the work
\* centers may have been deactivated since an operation was assigned to it.
SelProcesses == [p \in {"X", "Y"} |-> IF p = "X" THEN <<"W1", "W2">> ELSE <<"W3">>]
SelWorkCenters == {"W1", "W2", "W3"}

\* A scheduled operation of 4 hours, as the strategy emits it: the fields of
\* the operation, its stored workCenterId among them, and the dates.
ScheduledOperation(processId, operationType, workCenterId, startDate) ==
    [processId |-> processId, operationType |-> operationType,
     workCenterId |-> workCenterId, startDate |-> startDate, dueDate |-> startDate + 1,
     durationHours |-> 4, durationDays |-> 1, priority |-> 99,
     hasConflict |-> FALSE, conflictReason |-> None]

InitSelect ==
    /\ pc = "scheduled"
    /\ processTable = SelProcesses
    /\ activeTable \in SUBSET SelWorkCenters
    /\ wcSelections = EmptyMap
    /\ \E processId \in [SelIds -> {NULL} \cup DOMAIN SelProcesses],
          operationType \in [SelIds -> {"Inside", "Outside"}],
          workCenterId \in [SelIds -> {NULL} \cup SelWorkCenters],
          startDate \in [SelIds -> {20104, 20105}] :
          scheduled = [id \in SelIds |->
                          ScheduledOperation(processId[id], operationType[id],
                                             workCenterId[id], startDate[id])]
    /\ \E otherWc \in {NULL, "W1", "W2"}, otherStart \in {None, Some(20105)} :
          rows = [r \in {OtherRowId} |->
                     [JobOperationRow("J2", 1, AfterPrevious, 0, 4, otherWc)
                         EXCEPT !.startDate = otherStart]]
    /\ prevRows = EmptyMap
    /\ runs = 0
    /\ firstRun = EmptyMap
    /\ operations = EmptyMap
    /\ today = 0
    /\ jobDate = None
    /\ direction = NULL
    /\ graph = EmptyGraph(<<>>, OpIds)
    /\ addCalls = 0
    /\ sortResult = <<>>
    /\ sortOutcome = NULL
    /\ PrioIdle
    /\ ReqIdle
    /\ QueueIdle
    /\ ConcIdle
    /\ TreeIdle
    /\ BatchIdle

\* initialize, selectWorkCentersForOperations, then applyWorkCenterSelections.
SelectAndApply ==
    /\ pc = "scheduled"
    /\ LET wcs == [p \in DOMAIN processTable |->
                      workCentersByProcess(processTable, activeTable, p)]
           sel == selectWorkCentersForOperations(rows, wcs, scheduled, SelOrder)
       IN  /\ wcSelections' = sel
           /\ scheduled' = applyWorkCenterSelections(scheduled, sel)
    /\ firstRun' = scheduled
    /\ pc' = "selected"
    /\ UNCHANGED <<direction, operations, today, jobDate, graphVars, prioVars,
                   rows, prevRows, runs, processTable, activeTable, reqVars,
                   queueVars, concVars, treeVars, batchVars>>

NextSelect == SelectAndApply

SpecSelect == InitSelect /\ [][NextSelect]_vars

\* A work center is eligible for a process when it is active at the location
\* and in the work-center list of the process.
Eligible(wcId, processId) ==
    /\ wcId \in activeTable
    /\ processId \in DOMAIN processTable
    /\ InSeq(wcId, processTable[processId])

\* C11: after selectWorkCentersForOperations and applyWorkCenterSelections,
\* every scheduled operation whose workCenterId is set has a workCenterId
\* that is active at the location and in the work-center list of the
\* operation's process, failed wcSelections and Outside operations included.
C11_AssignedWorkCenterEligible ==
    pc = "selected" =>
        \A id \in SelIds :
            scheduled[id].workCenterId # NULL =>
                Eligible(scheduled[id].workCenterId, scheduled[id].processId)

\* What the code keeps: a work center the selector picked is eligible.
C11_SelectedWorkCenterEligible ==
    pc = "selected" =>
        \A id \in DOMAIN wcSelections :
            wcSelections[id] # NULL =>
                /\ scheduled[id].workCenterId = wcSelections[id]
                /\ Eligible(wcSelections[id], scheduled[id].processId)

-----------------------------------------------------------------------------
(* Specification SpecRequest: the schedule function serves one request:      *)
(* schedule/index.ts, with the engine's sequence of spec section 4.9         *)

\* A field the JSON body does not have.
MISSING == "undefined"

\* payloadValidator, lines 16-22: whether zod's parse throws, and the parsed
\* payload with the defaults filled in.
payloadValidator(payload) ==
    [threw |-> \/ payload.jobId = MISSING
               \/ payload.companyId = MISSING
               \/ payload.userId = MISSING
               \/ payload.mode \notin {MISSING, "initial", "reschedule"}
               \/ payload.direction \notin {MISSING, "backward", "forward"},
     data |-> [payload EXCEPT !.mode = IF @ = MISSING THEN "initial" ELSE @,
                              !.direction = IF @ = MISSING THEN "backward" ELSE @]]

\* The steps of the engine at which a read or write of storage can fail.
\* Steps 5 and 7 are computed in memory.
StorageSteps == {2, 3, 4, 6, 8}
NoFailure == 0

\* The dependency records of the job's operations, rows of storage.
engineDependencyRecords(db, jobIds) ==
    LET ops == [id \in SeqToSet(jobIds) |-> operationOfRow(db[id])]
    IN  dependenciesToRecords(buildOperationDependencies(ops, jobIds), jobIds)

\* SchedulingEngine.run with a storage failure at step failAt (NoFailure: no
\* failure). Step 3 replaces the job's dependency set, step 8 updates the
\* operation rows; each write is all or nothing, and a step that fails
\* writes nothing.
engineRunWith(sch, db, deps, jobIds, failAt) ==
    LET reached(step) == failAt = NoFailure \/ failAt > step
    IN  [error |-> IF failAt = NoFailure THEN NULL ELSE "StorageError",
         deps |-> IF reached(3) THEN engineDependencyRecords(db, jobIds) ELSE deps,
         rows |-> IF reached(8) THEN persistOperations(db, sch) ELSE db,
         operationsScheduled |-> Cardinality(DOMAIN sch),
         conflictsDetected |-> Cardinality({id \in DOMAIN sch : sch[id].hasConflict})]

engineRun(db, deps, wcs, jobIds, date, dir, td, failAt) ==
    engineRunWith(engineSchedule(db, wcs, jobIds, date, dir, td, None, NULL),
                  db, deps, jobIds, failAt)

Response(status, success, operationsScheduled, conflictsDetected) ==
    [status |-> status, success |-> success,
     operationsScheduled |-> operationsScheduled,
     conflictsDetected |-> conflictsDetected]

Methods == {"POST", "OPTIONS"}

\* Bodies: a JSON object with or without each field, or a body that is not JSON.
Payloads ==
    [jobId : {"J1", MISSING}, companyId : {"Co", MISSING}, userId : {"U", MISSING},
     mode : {MISSING, "initial", "reschedule", "resume"},
     direction : {MISSING, "backward", "forward", "sideways"}]

NotJson == [jobId |-> MISSING, companyId |-> MISSING, userId |-> MISSING,
            mode |-> "", direction |-> ""]

\* The dependency set stored by an earlier scheduling of the job, made when
\* every operation was After Previous, or none.
StoredDependencySets == {<<>>, <<<<"B", "A">>, <<"C", "B">>>>}

InitRequest ==
    /\ pc = "listening"
    /\ request = NULL
    /\ response = NULL
    /\ depRows \in StoredDependencySets
    /\ prevDepRows = <<>>
    /\ \E oo \in [OpIds -> {AfterPrevious, WithPrevious}] :
          /\ oo[OpOrder[1]] = AfterPrevious
          /\ rows = [r \in OpIds |->
                        JobOperationRow("J1", IndexOf(r, OpOrder), oo[r], 0, 4, NULL)]
    /\ prevRows = EmptyMap
    /\ runs = 0
    /\ today \in TodayDates
    /\ jobDate = Some(20105)
    /\ direction = NULL
    /\ graph = EmptyGraph(<<>>, OpIds)
    /\ addCalls = 0
    /\ sortResult = <<>>
    /\ sortOutcome = NULL
    /\ operations = EmptyMap
    /\ scheduled = EmptyMap
    /\ firstRun = EmptyMap
    /\ PrioIdle
    /\ SelIdle
    /\ QueueIdle
    /\ ConcIdle
    /\ TreeIdle
    /\ BatchIdle

\* The try block of serve after the engine has run, lines 53-87: the engine's
\* writes stand, and the result or its error is answered.
serveResult(validatedPayload, result) ==
    /\ runs' = runs + 1
    /\ direction' = validatedPayload.direction
    /\ rows' = result.rows
    /\ depRows' = result.deps
    /\ response' =
           IF result.error # NULL
           THEN Response(500, "false", 0, 0)
           ELSE Response(200, "true", result.operationsScheduled,
                         result.conflictsDetected)

\* serve, lines 24-89: the whole handler for one request. The engine is run
\* when the payload parses; whatever throws inside the try block is answered
\* by the catch block.
Serve(method, payload, failAt) ==
    /\ pc = "listening"
    /\ request' = [method |-> method, payload |-> payload]
    /\ prevRows' = rows
    /\ prevDepRows' = depRows
    /\ pc' = "responded"
    /\ LET parsed == payloadValidator(payload)
           validatedPayload == parsed.data
       IN  IF method = "OPTIONS"
           THEN /\ response' = Response(200, NULL, 0, 0)
                /\ UNCHANGED <<rows, depRows, runs, direction>>
           ELSE IF parsed.threw
           THEN /\ response' = Response(500, "false", 0, 0)
                /\ UNCHANGED <<rows, depRows, runs, direction>>
           ELSE serveResult(validatedPayload,
                            engineRun(rows, depRows, SelectorWorkCenters, OpOrder,
                                      jobDate, validatedPayload.direction, today,
                                      failAt))
    /\ UNCHANGED <<graphVars, schedVars, prioVars, selVars, queueVars, concVars, treeVars, batchVars>>

NextRequest ==
    \E method \in Methods, payload \in Payloads \cup {NotJson},
       failAt \in {NoFailure} \cup StorageSteps :
       Serve(method, payload, failAt)

SpecRequest == InitRequest /\ [][NextRequest]_vars

Aborted == pc = "responded" /\ request.method = "POST" /\ response.status # 200

\* C12: if an invocation aborts with an error other than a conflict, at any
\* step of the engine sequence, no write has happened: the job's persisted
\* dependency set and its operation rows are the same as before.
C12_AbortWritesNothing ==
    Aborted => (depRows = prevDepRows /\ rows = prevRows)

\* What an abort does leave alone: the operation rows.
C12_AbortKeepsOperationRows ==
    Aborted => rows = prevRows

\* A payload is malformed when an id is missing or mode or direction is
\* outside the allowed values.
Malformed(payload) ==
    \/ payload.jobId = MISSING \/ payload.companyId = MISSING \/ payload.userId = MISSING
    \/ payload.mode \notin {MISSING, "initial", "reschedule"}
    \/ payload.direction \notin {MISSING, "backward", "forward"}

\* C15: a request with a malformed payload is answered with a 400-class
\* status and success false, and the engine is never run for it.
C15_MalformedIs400 ==
    (pc = "responded" /\ request.method = "POST" /\ Malformed(request.payload)) =>
        /\ response.status \in 400..499
        /\ response.success = "false"
        /\ runs = 0

\* What the handler does with a malformed payload: status 500, success
\* false, no run of the engine and no write.
C15_MalformedIs500 ==
    (pc = "responded" /\ request.method = "POST" /\ Malformed(request.payload)) =>
        /\ response.status = 500
        /\ response.success = "false"
        /\ runs = 0
        /\ rows = prevRows
        /\ depRows = prevDepRows

-----------------------------------------------------------------------------
(* Specification SpecQueue: schedule-job runs are triggered, queued on the   *)
(* "scheduling" queue, started and finished                                  *)

\* queue.concurrencyLimit of the schedule-job task.
concurrencyLimit == 5

\* Runs triggered in a behaviour, retries included.
MaxTriggers == 6

QueueJobs == {"J1", "J2"}

InitQueue ==
    /\ pc = "queue"
    /\ taskQueue = <<>>
    /\ running = {}
    /\ triggered = 0
    /\ rows = EmptyMap
    /\ prevRows = EmptyMap
    /\ runs = 0
    /\ direction = NULL
    /\ graph = EmptyGraph(<<>>, OpIds)
    /\ addCalls = 0
    /\ sortResult = <<>>
    /\ sortOutcome = NULL
    /\ operations = EmptyMap
    /\ today = 0
    /\ jobDate = None
    /\ scheduled = EmptyMap
    /\ firstRun = EmptyMap
    /\ PrioIdle
    /\ SelIdle
    /\ ReqIdle
    /\ ConcIdle
    /\ TreeIdle
    /\ BatchIdle

QueueRest == <<pc, direction, graphVars, schedVars, prioVars, rows, prevRows, runs,
               selVars, reqVars, concVars, treeVars, batchVars>>

\* scheduleJob.trigger(payload): the run waits on the task's queue.
TriggerScheduleJob(jobId) ==
    /\ triggered < MaxTriggers
    /\ triggered' = triggered + 1
    /\ taskQueue' = Append(taskQueue, [run |-> triggered + 1, jobId |-> jobId])
    /\ UNCHANGED <<running, QueueRest>>

\* The queue starts its oldest waiting run while fewer than concurrencyLimit
\* runs of the queue are executing: the run function is entered and invokes
\* the schedule function (lines 25-40). The task sets no concurrency key,
\* so the payload's jobId plays no part.
StartRun ==
    /\ taskQueue # <<>>
    /\ Cardinality(running) < concurrencyLimit
    /\ running' = running \cup {Head(taskQueue)}
    /\ taskQueue' = Tail(taskQueue)
    /\ UNCHANGED <<triggered, QueueRest>>

\* The invocation returns and the run function returns its result (lines
\* 42-59), or it throws and the run is retried (lines 60-67).
FinishRun(r, ok) ==
    /\ r \in running
    /\ running' = running \ {r}
    /\ IF ok \/ triggered >= MaxTriggers
       THEN UNCHANGED <<taskQueue, triggered>>
       ELSE /\ triggered' = triggered + 1
            /\ taskQueue' = Append(taskQueue, [run |-> triggered + 1, jobId |-> r.jobId])
    /\ UNCHANGED QueueRest

NextQueue ==
    \/ \E jobId \in QueueJobs : TriggerScheduleJob(jobId)
    \/ StartRun
    \/ \E r \in running, ok \in BOOLEAN : FinishRun(r, ok)

SpecQueue == InitQueue /\ [][NextQueue]_vars

\* C13: two scheduling invocations for the same job are never in progress at
\* the same time.
C13_OneInvocationPerJob ==
    \A r1 \in running, r2 \in running : r1 # r2 => r1.jobId # r2.jobId

\* What the queue does guarantee: at most concurrencyLimit runs at a time.
C13_AtMostLimitRuns ==
    Cardinality(running) <= concurrencyLimit

-----------------------------------------------------------------------------
(* Specification SpecConc: two engine runs, for different jobs, select work  *)
(* centers at the same time; a run can be suspended at each query of storage *)

ConcRuns == {"R1", "R2"}

\* The operations of the two jobs, all of process P1 and of equal start date.
ConcJobOf(run) == IF run = "R1" THEN "J1" ELSE "J2"
ConcOpsOf(run) == IF run = "R1" THEN <<"A", "C">> ELSE <<"B">>
ConcStartDate == 20105

\* One tally for the process: every run reads the hours of all runs.
inMemoryLoadShared(runsState, run) ==
    [wcId \in UNION {DOMAIN runsState[r].tally : r \in DOMAIN runsState} |->
        LET a == getInMemoryLoad(runsState["R1"].tally, wcId)
            b == getInMemoryLoad(runsState["R2"].tally, wcId)
        IN  a + b]

\* this.inMemoryLoadByWorkCenter of a run's selector (line 276): a field of
\* the WorkCenterSelector instance the run constructed.
inMemoryLoadByWorkCenter(runsState, run) == runsState[run].tally

NoSelection == [workCenterId |-> NULL, load |-> 0]

InitConc ==
    /\ pc = "selecting"
    /\ \E setup \in [OpIds -> {4, 12}], otherWc \in {NULL} \cup ActiveWorkCenters :
          rows = [r \in OpIds \cup {OtherRowId} |->
                     IF r = OtherRowId
                     THEN JobOperationRow("J3", 1, AfterPrevious, 0, 4, otherWc)
                     ELSE [JobOperationRow(IF r = "B" THEN "J2" ELSE "J1", 1,
                                           AfterPrevious, 0, setup[r], NULL)
                              EXCEPT !.startDate = Some(ConcStartDate)]]
    /\ selectorRuns = [run \in ConcRuns |->
                          [pending |-> ConcOpsOf(run),
                           wcLeft |-> SelectorWorkCenters["P1"],
                           best |-> NoSelection,
                           tally |-> EmptyMap,
                           selections |-> EmptyMap,
                           phase |-> "selecting"]]
    /\ prevRows = EmptyMap
    /\ runs = 0
    /\ direction = NULL
    /\ graph = EmptyGraph(<<>>, OpIds)
    /\ addCalls = 0
    /\ sortResult = <<>>
    /\ sortOutcome = NULL
    /\ operations = EmptyMap
    /\ today = 0
    /\ jobDate = None
    /\ scheduled = EmptyMap
    /\ firstRun = EmptyMap
    /\ PrioIdle
    /\ SelIdle
    /\ ReqIdle
    /\ QueueIdle
    /\ TreeIdle
    /\ BatchIdle

ConcRest == <<pc, direction, graphVars, schedVars, prioVars, prevRows, runs,
              selVars, reqVars, queueVars, treeVars, batchVars>>

\* One pass of the loop of selectWorkCenter (lines 472-483) by a run: the
\* load query of the next work center, and the comparison. After the last
\* work center the selection is returned and selectWorkCentersForOperations
\* adds the operation's hours to the run's tally (lines 531-537).
EvaluateWorkCenter(run) ==
    LET st == selectorRuns[run]
        opId == Head(st.pending)
        tally == inMemoryLoadByWorkCenter(selectorRuns, run)
        best == leastLoaded(rows, tally, <<Head(st.wcLeft)>>, ConcStartDate, st.best)
        hours == calculateDurationHours(rows[opId])
    IN  /\ st.phase = "selecting"
        /\ selectorRuns' =
              [selectorRuns EXCEPT ![run] =
                  IF Len(st.wcLeft) > 1
                  THEN [st EXCEPT !.wcLeft = Tail(st.wcLeft), !.best = best]
                  ELSE [st EXCEPT
                           !.pending = Tail(st.pending),
                           !.wcLeft = SelectorWorkCenters["P1"],
                           !.best = NoSelection,
                           !.selections = MapSet(st.selections, opId, best.workCenterId),
                           !.tally = addInMemoryLoad(tally, best.workCenterId, hours),
                           !.phase = IF Len(st.pending) > 1 THEN "selecting"
                                     ELSE "selected"]]
        /\ UNCHANGED <<rows, ConcRest>>

\* The run's write of its operation rows (engine step 8).
PersistRun(run) ==
    LET st == selectorRuns[run]
    IN  /\ st.phase = "selected"
        /\ rows' = [r \in DOMAIN rows |->
                       IF r \in DOMAIN st.selections
                       THEN [rows[r] EXCEPT !.workCenterId = st.selections[r]]
                       ELSE rows[r]]
        /\ selectorRuns' = [selectorRuns EXCEPT ![run].phase = "persisted"]
        /\ UNCHANGED ConcRest

NextConc ==
    \/ \E run \in ConcRuns : EvaluateWorkCenter(run)
    \/ \E run \in ConcRuns : PersistRun(run)

SpecConc == InitConc /\ [][NextConc]_vars

\* Hours of the operations a run has itself assigned to a work center.
RECURSIVE OwnHours(_, _, _)
OwnHours(run, wcId, ids) ==
    IF ids = <<>> THEN 0
    ELSE (IF /\ Head(ids) \in DOMAIN selectorRuns[run].selections
             /\ selectorRuns[run].selections[Head(ids)] = wcId
          THEN calculateDurationHours(rows[Head(ids)]) ELSE 0)
         + OwnHours(run, wcId, Tail(ids))

\* What a run would select with the rows as they are and no other run.
SoloSelections(run) ==
    selectWorkCentersForOperations(
        rows, SelectorWorkCenters,
        [id \in SeqToSet(ConcOpsOf(run)) |->
            [processId |-> rows[id].processId, operationType |-> rows[id].operationType,
             startDate |-> ConcStartDate,
             durationHours |-> calculateDurationHours(rows[id])]],
        ConcOpsOf(run))

-----------------------------------------------------------------------------
(* Properties of the selection, under SpecSelect *)

\* The eligible work centers of an operation, in the order of the list of
\* its process.
EligibleList(id) ==
    IF scheduled[id].processId = NULL THEN <<>>
    ELSE SelectSeq(processTable[scheduled[id].processId],
                   LAMBDA wcId : wcId \in activeTable)

\* The batch is processed by start date, in the order given for equal dates.
ProcessedBefore(j, i) ==
    \/ scheduled[j].startDate < scheduled[i].startDate
    \/ /\ scheduled[j].startDate = scheduled[i].startDate
       /\ IndexOf(j, SelOrder) < IndexOf(i, SelOrder)

\* Persisted load of a work center up to a date: the other job's row, when
\* it is on the work center and starts by that date or has no start date.
PersistedLoad(wcId, date) ==
    IF /\ rows[OtherRowId].workCenterId = wcId
       /\ \/ rows[OtherRowId].startDate = None
          \/ ValueOf(rows[OtherRowId].startDate) <= date
    THEN 4 ELSE 0

\* The load a work center has when operation id is up: persisted load and
\* the hours of the operations of the batch selected onto it before.
TotalLoad(id, wcId) ==
    PersistedLoad(wcId, scheduled[id].startDate)
    + 4 * Cardinality({j \in DOMAIN wcSelections :
                          ProcessedBefore(j, id) /\ wcSelections[j] = wcId})

\* C18: selectWorkCenter returns a work center of the process's eligible
\* list whose total load (persisted load up to the start date plus this
\* run's tally) is minimal among the eligible ones, the first of the list on
\* a tie; it returns none when the process id is absent or no work center
\* is eligible.
C18_LeastLoadedFirstOnTie ==
    pc = "selected" =>
        \A id \in SelIds :
            IF scheduled[id].operationType = "Outside"
            THEN id \notin DOMAIN wcSelections
            ELSE /\ id \in DOMAIN wcSelections
                 /\ IF EligibleList(id) = <<>>
                    THEN wcSelections[id] = NULL
                    ELSE LET list == EligibleList(id)
                             w == wcSelections[id]
                         IN  /\ InSeq(w, list)
                             /\ \A k \in 1..Len(list) :
                                   /\ TotalLoad(id, w) <= TotalLoad(id, list[k])
                                   /\ k < IndexOf(w, list) =>
                                         TotalLoad(id, w) < TotalLoad(id, list[k])

\* Process X with W1 and W2 active and empty, two 4-hour operations of X
\* with the same start date in one batch: the first goes to W1, the second
\* to W2.
C18_Witness ==
    /\ pc = "selected"
    /\ {"W1", "W2"} \subseteq activeTable
    /\ rows[OtherRowId].workCenterId = NULL
    /\ \A id \in SelIds : /\ scheduled[id].processId = "X"
                          /\ scheduled[id].operationType = "Inside"
                          /\ firstRun[id].workCenterId = NULL
    /\ scheduled["A"].startDate = scheduled["B"].startDate
    /\ wcSelections = [id \in SelIds |-> IF id = "A" THEN "W1" ELSE "W2"]
    /\ scheduled["A"].workCenterId = "W1"
    /\ scheduled["B"].workCenterId = "W2"

-----------------------------------------------------------------------------
(* Specification SpecDuration: the duration calculator is applied to an      *)
(* operation                                                                 *)

FactorUnits ==
    {"Total Hours", "Total Minutes", "Hours/Piece", "Hours/100 Pieces",
     "Hours/1000 Pieces", "Minutes/Piece", "Minutes/100 Pieces",
     "Minutes/1000 Pieces", "Pieces/Hour", "Pieces/Minute", "Seconds/Piece"}

InitDuration ==
    /\ pc = "operation"
    /\ \E setupTime \in {None, Some(0), Some(30)}, laborTime \in {None, Some(1), Some(2)},
          machineTime \in {None, Some(1)},
          setupUnit \in FactorUnits \cup {NULL}, laborUnit \in FactorUnits \cup {NULL},
          machineUnit \in FactorUnits \cup {NULL},
          operationQuantity \in {None, Some(0), Some(3)} :
          operations = [id \in {"A"} |->
                           [setupTime |-> setupTime, setupUnit |-> setupUnit,
                            laborTime |-> laborTime, laborUnit |-> laborUnit,
                            machineTime |-> machineTime, machineUnit |-> machineUnit,
                            operationQuantity |-> operationQuantity]]
    /\ scheduled = EmptyMap
    /\ firstRun = EmptyMap
    /\ today = 0
    /\ jobDate = None
    /\ direction = NULL
    /\ graph = EmptyGraph(<<>>, OpIds)
    /\ addCalls = 0
    /\ sortResult = <<>>
    /\ sortOutcome = NULL
    /\ PrioIdle
    /\ PipeIdle

\* calculateDurationHours and calculateDurationDays of the operation.
CalculateDuration ==
    /\ pc = "operation"
    /\ scheduled' = [id \in DOMAIN operations |->
                        [durationHours |-> calculateDurationHoursByUnit(operations[id]),
                         durationDays |-> calculateDurationDaysByUnit(operations[id])]]
    /\ pc' = "computed"
    /\ UNCHANGED <<direction, operations, today, jobDate, firstRun, graphVars,
                   prioVars, pipeVars>>

NextDuration == CalculateDuration

SpecDuration == InitDuration /\ [][NextDuration]_vars

\* The hours of one time by the meaning of its unit, in seconds: a total,
\* an amount per so many pieces, or a rate in pieces per hour or minute.
SecondsPerUnit(unit) ==
    CASE unit \in {"Total Hours", "Hours/Piece", "Hours/100 Pieces", "Hours/1000 Pieces",
                   "Pieces/Hour"} -> 3600
      [] unit \in {"Total Minutes", "Minutes/Piece", "Minutes/100 Pieces",
                   "Minutes/1000 Pieces", "Pieces/Minute"} -> 60
      [] unit = "Seconds/Piece" -> 1

PiecesPerUnit(unit) ==
    CASE unit \in {"Hours/Piece", "Minutes/Piece", "Seconds/Piece"} -> 1
      [] unit \in {"Hours/100 Pieces", "Minutes/100 Pieces"} -> 100
      [] unit \in {"Hours/1000 Pieces", "Minutes/1000 Pieces"} -> 1000

\* 1000 * seconds: the amounts per 1000 pieces are whole numbers then.
MilliSecondsOfTime(time, unit, pieces) ==
    IF time \in {None, Some(0)} \/ unit = NULL THEN 0
    ELSE IF unit \in {"Total Hours", "Total Minutes"}
         THEN 1000 * ValueOf(time) * SecondsPerUnit(unit)
    ELSE IF unit \in {"Pieces/Hour", "Pieces/Minute"}
         THEN (1000 * pieces * SecondsPerUnit(unit)) \div ValueOf(time)
    ELSE (1000 * ValueOf(time) * pieces * SecondsPerUnit(unit)) \div PiecesPerUnit(unit)

\* C20: calculateDurationHours returns setupHours + max(laborHours,
\* machineHours) and calculateDurationDays returns max(ceil(totalHours / 8),
\* 1), so durationDays >= 1: the days are the least whole number, at least
\* 1, of 8-hour days that hold the hours.
C20_DurationFormula ==
    pc = "computed" =>
        LET op == operations["A"]
            pieces == IF op.operationQuantity \in {None, Some(0)} THEN 1
                      ELSE ValueOf(op.operationQuantity)
            setupMs == MilliSecondsOfTime(op.setupTime, op.setupUnit, pieces)
            laborMs == MilliSecondsOfTime(op.laborTime, op.laborUnit, pieces)
            machineMs == MilliSecondsOfTime(op.machineTime, op.machineUnit, pieces)
            totalMs == scheduled["A"].durationHours \div (HourUnits \div (3600 * 1000))
            days == scheduled["A"].durationDays
        IN  /\ totalMs \in {setupMs + laborMs, setupMs + machineMs}
            /\ totalMs >= setupMs + laborMs
            /\ totalMs >= setupMs + machineMs
            /\ days >= 1
            /\ totalMs <= days * 8 * 3600 * 1000
            /\ days > 1 => totalMs > (days - 1) * 8 * 3600 * 1000

\* setup = 30 Total Minutes, labor = 2 Hours/Piece, machine = 1 Hours/Piece,
\* quantity = 3: 6.5 hours and 1 day.
C20_Witness ==
    /\ pc = "computed"
    /\ operations["A"] = [setupTime |-> Some(30), setupUnit |-> "Total Minutes",
                          laborTime |-> Some(2), laborUnit |-> "Hours/Piece",
                          machineTime |-> Some(1), machineUnit |-> "Hours/Piece",
                          operationQuantity |-> Some(3)]
    /\ 2 * scheduled["A"].durationHours = 13 * HourUnits
    /\ scheduled["A"].durationDays = 1

\* The hours the unit table gives for the quantity the operation holds: 1
\* stands in for a quantity that is missing, and for no other.
HoursAsHeld(op) ==
    LET pieces == IF op.operationQuantity = None THEN 1
                  ELSE ValueOf(op.operationQuantity)
        setupMs == MilliSecondsOfTime(op.setupTime, op.setupUnit, pieces)
        laborMs == MilliSecondsOfTime(op.laborTime, op.laborUnit, pieces)
        machineMs == MilliSecondsOfTime(op.machineTime, op.machineUnit, pieces)
    IN  (setupMs + Max2(laborMs, machineMs)) * (HourUnits \div (3600 * 1000))

\* C21: for the quantity-scaled units calculateDurationHours uses the
\* operation's operationQuantity for every value it holds and substitutes 1
\* only when the quantity is missing; a missing time or unit contributes 0
\* hours.
C21_QuantityAsHeld ==
    pc = "computed" =>
        scheduled["A"].durationHours = HoursAsHeld(operations["A"])

\* What the code keeps: the quantity is used as held when it is not 0.
C21_NonZeroQuantityAsHeld ==
    (pc = "computed" /\ operations["A"].operationQuantity # Some(0)) =>
        scheduled["A"].durationHours = HoursAsHeld(operations["A"])

-----------------------------------------------------------------------------
(* Specification SpecResched: a job that was scheduled before, some of its   *)
(* operations started since, is given to the date strategy and then to the   *)
(* work-center selector                                                      *)

\* The statuses of the operations the assembly tree hands on.
OpenStatuses == {"Ready", "In Progress", "Paused"}
PinnedStatuses == {"In Progress", "Paused"}

\* The start dates stored by the earlier scheduling: Thursday 2025-01-09 and
\* Thursday 2025-01-16.
StoredStartDates == {20097, 20104}

ReschedToday == 20101
ReschedJobDate == 20105

\* The options of the run, SchedulingOptions (part_001 lines 342-348).
SchedulingOptions(mode, dir) == [mode |-> mode, direction |-> dir]

InitResched ==
    /\ pc = "loaded"
    /\ \E mode \in {"initial", "reschedule"}, dir \in {"backward", "forward"} :
          /\ request = SchedulingOptions(mode, dir)
          /\ direction = dir
    /\ response = NULL
    /\ depRows = <<>>
    /\ prevDepRows = <<>>
    /\ processTable = Processes
    /\ activeTable = ActiveWorkCenters
    /\ wcSelections = EmptyMap
    /\ \E status \in [OpIds -> OpenStatuses],
          workCenterId \in [OpIds -> ActiveWorkCenters],
          startDate \in [OpIds -> StoredStartDates],
          otherWc \in {NULL} \cup ActiveWorkCenters :
          rows = [r \in OpIds \cup {OtherRowId} |->
                     IF r = OtherRowId
                     THEN JobOperationRow("J2", 1, AfterPrevious, 0, 4, otherWc)
                     ELSE [JobOperationRow("J1", IndexOf(r, OpOrder), AfterPrevious,
                                           0, 4, workCenterId[r])
                              EXCEPT !.status = status[r],
                                     !.startDate = Some(startDate[r]),
                                     !.dueDate = Some(startDate[r] + 1)]]
    /\ operations = [id \in OpIds |-> rows[id]]
    /\ graph = DependencyGraphImpl(
                   OpOrder,
                   dependenciesToRecords(buildOperationDependencies(operations, OpOrder),
                                         OpOrder),
                   OpIds)
    /\ prevRows = EmptyMap
    /\ runs = 0
    /\ today = ReschedToday
    /\ jobDate = Some(ReschedJobDate)
    /\ addCalls = 0
    /\ sortResult = <<>>
    /\ sortOutcome = NULL
    /\ scheduled = EmptyMap
    /\ firstRun = EmptyMap
    /\ PrioIdle
    /\ QueueIdle
    /\ ConcIdle
    /\ TreeIdle
    /\ BatchIdle

\* calculateOperationDates with the strategy of the direction; a scheduled
\* operation is the operation with the computed fields laid over it
\* (date-calculator.ts lines 168-178 and 270-280).
CalculateJobDates ==
    /\ pc = "loaded"
    /\ LET dates == calculateOperationDates(operations, graph, jobDate, direction, today)
       IN  scheduled' = [id \in DOMAIN dates |->
                            dates[id] @@ [processId |-> operations[id].processId,
                                          operationType |-> operations[id].operationType,
                                          status |-> operations[id].status,
                                          workCenterId |-> operations[id].workCenterId]]
    /\ pc' = "dated"
    /\ UNCHANGED <<direction, operations, today, jobDate, firstRun, graphVars,
                   prioVars, pipeVars>>

\* selectWorkCentersForOperations over the scheduled operations, then
\* applyWorkCenterSelections.
SelectJobWorkCenters ==
    /\ pc = "dated"
    /\ LET wcs == [p \in DOMAIN processTable |->
                      workCentersByProcess(processTable, activeTable, p)]
           ids == SelectSeq(OpOrder, LAMBDA id : id \in DOMAIN scheduled)
           sel == selectWorkCentersForOperations(rows, wcs, scheduled, ids)
       IN  /\ wcSelections' = sel
           /\ scheduled' = applyWorkCenterSelections(scheduled, sel)
    /\ pc' = "selected"
    /\ UNCHANGED <<direction, operations, today, jobDate, firstRun, graphVars,
                   prioVars, rows, prevRows, runs, processTable, activeTable,
                   reqVars, queueVars, concVars, treeVars, batchVars>>

NextResched == CalculateJobDates \/ SelectJobWorkCenters

SpecResched == InitResched /\ [][NextResched]_vars

Pinned(id) == rows[id].status \in PinnedStatuses

\* C22: in reschedule mode every operation with status In Progress or Paused
\* keeps the startDate and the workCenterId it had before the run, through
\* the date strategy and through the work-center selector, and it is a node
\* of the graph.
C22_PinnedOperationsKept ==
    (pc \in {"dated", "selected"} /\ request.mode = "reschedule") =>
        \A id \in OpIds :
            Pinned(id) =>
                /\ IsNode(graph, id)
                /\ Some(scheduled[id].startDate) = rows[id].startDate
                /\ scheduled[id].workCenterId = rows[id].workCenterId

\* What the code keeps: a pinned operation is a node of the graph and is
\* scheduled like every other operation.
C22_PinnedOperationsInGraph ==
    pc \in {"dated", "selected"} =>
        \A id \in OpIds : Pinned(id) => (IsNode(graph, id) /\ id \in DOMAIN scheduled)

-----------------------------------------------------------------------------
(* Assembly handler: assembly-handler.ts, AssemblyHandler *)

ClosedStatuses == {"Done", "Canceled"}

\* transformTreeItem, lines 77-93: the operations of the method of each tree item, and
\* the same for its children. An operation stands in a node by its id.
RECURSIVE transformTreeItem(_, _)
transformTreeItem(item, operationsByMethod) ==
    [id |-> item.id,
     jobMakeMethodId |-> item.jobMakeMethodId,
     operations |-> IF item.jobMakeMethodId \in DOMAIN operationsByMethod
                    THEN operationsByMethod[item.jobMakeMethodId]
                    ELSE <<>>,
     children |-> [i \in 1..Len(item.children) |->
                      transformTreeItem(item.children[i], operationsByMethod)]]

\* The job's rows grouped by method, lines 58-67: a row with no
\* jobMakeMethodId is left out.
groupByMethod(db, operationIds) ==
    [m \in {db[id].jobMakeMethodId : id \in SeqToSet(operationIds)} \ {NULL} |->
        SelectSeq(operationIds, LAMBDA id : db[id].jobMakeMethodId = m)]

\* A tree that takes the job's rows of every status.
buildAssemblyTreeAllStatuses(db, jobId, treeItem) ==
    LET operationIds ==
            SortByOrder(db, SelectSeq(OpOrder, LAMBDA id : id \in DOMAIN db /\ db[id].jobId = jobId))
    IN  transformTreeItem(treeItem, groupByMethod(db, operationIds))

\* buildAssemblyTree, lines 30-72, for a job that has a root method and a
\* method tree (treeItem, from getJobMethodTree): the job's rows that are not
\* Done or Canceled, ordered by order.
buildAssemblyTree(db, jobId, treeItem) ==
    LET operationIds ==
            SortByOrder(db, SelectSeq(OpOrder,
                                      LAMBDA id : /\ id \in DOMAIN db
                                                  /\ db[id].jobId = jobId
                                                  /\ db[id].status \notin ClosedStatuses))
    IN  transformTreeItem(treeItem, groupByMethod(db, operationIds))

\* getPostOrderTraversal, lines 99-113, and getPreOrderTraversal, lines
\* 119-133: the nodes, children before or after their parent.
\* A traversal that pushes the node before it descends into the last child.
RECURSIVE traversalBeforeLastChild(_)
traversalBeforeLastChild(node) ==
    LET n == Len(node.children)
        RECURSIVE ofChildren(_)
        ofChildren(i) == IF i >= n THEN <<>>
                         ELSE traversalBeforeLastChild(node.children[i]) \o ofChildren(i + 1)
    IN  ofChildren(1) \o <<node>>
        \o (IF n = 0 THEN <<>> ELSE traversalBeforeLastChild(node.children[n]))

RECURSIVE getPostOrderTraversal(_)
getPostOrderTraversal(node) ==
    LET RECURSIVE ofChildren(_)
        ofChildren(i) == IF i > Len(node.children) THEN <<>>
                         ELSE getPostOrderTraversal(node.children[i]) \o ofChildren(i + 1)
    IN  ofChildren(1) \o <<node>>

RECURSIVE getPreOrderTraversal(_)
getPreOrderTraversal(node) ==
    LET RECURSIVE ofChildren(_)
        ofChildren(i) == IF i > Len(node.children) THEN <<>>
                         ELSE getPreOrderTraversal(node.children[i]) \o ofChildren(i + 1)
    IN  <<node>> \o ofChildren(1)

RECURSIVE operationsOfNodes(_)
operationsOfNodes(nodes) ==
    IF nodes = <<>> THEN <<>>
    ELSE Head(nodes).operations \o operationsOfNodes(Tail(nodes))

\* lines 139-148 and 154-163.
getAllOperationsForBackwardScheduling(root) == operationsOfNodes(getPostOrderTraversal(root))
getAllOperationsForForwardScheduling(root) == operationsOfNodes(getPreOrderTraversal(root))

-----------------------------------------------------------------------------
(* Specification SpecTree: the assembly tree of a job is built from storage, *)
(* its operations are collected and given to the strategy and the selector   *)

\* The method tree of the job, from getJobMethodTree: root method M1 with
\* one child method M2.
MethodTree ==
    [id |-> "M1", jobMakeMethodId |-> "M1",
     children |-> <<[id |-> "M2", jobMakeMethodId |-> "M2", children |-> <<>>]>>]

JobStatuses == {"Todo", "Ready", "In Progress", "Done", "Canceled"}

\* The method of each operation of the job: A and B in M1, C in M2.
MethodOf(id) == IF id = "C" THEN "M2" ELSE "M1"
OrderInMethod(id) == IF id = "B" THEN 2 ELSE 1

\* The operations of a node that have no predecessor in their method.
rankOneOperations(db, node) ==
    LET deps == buildOperationDependencies(db, node.operations)
    IN  SelectSeq(node.operations, LAMBDA id : deps[id] = <<>>)

\* Cross-method edges: the rank-1 operations of a method wait for the root
\* operations of each child method.
crossMethodRecords(db, node, child) ==
    LET parents == rankOneOperations(db, node)
        roots == rankOneOperations(db, child)
    IN  [k \in 1..(Len(parents) * Len(roots)) |->
            <<parents[((k - 1) \div Len(roots)) + 1], roots[((k - 1) % Len(roots)) + 1]>>]

\* The edges of the job: those of buildOperationDependencies within each
\* method, and the cross-method edges.
RECURSIVE treeDependencyRecords(_, _)
treeDependencyRecords(db, node) ==
    LET RECURSIVE ofChildren(_)
        ofChildren(i) ==
            IF i > Len(node.children) THEN <<>>
            ELSE treeDependencyRecords(db, node.children[i])
                 \o crossMethodRecords(db, node, node.children[i])
                 \o ofChildren(i + 1)
    IN  dependenciesToRecords(buildOperationDependencies(db, node.operations),
                              node.operations)
        \o ofChildren(1)

InitTree ==
    /\ pc = "stored"
    /\ assemblyTree = NULL
    /\ BatchIdle
    /\ \E dir \in {"backward", "forward"} :
          /\ direction = dir
          /\ request = SchedulingOptions("initial", dir)
    /\ response = NULL
    /\ depRows = <<>>
    /\ prevDepRows = <<>>
    /\ processTable = Processes
    /\ activeTable = ActiveWorkCenters
    /\ wcSelections = EmptyMap
    /\ \E status \in [OpIds -> JobStatuses],
          workCenterId \in [OpIds -> {NULL, "W1"}],
          otherStatus \in {"Ready", "Done", "Canceled"},
          otherWc \in ActiveWorkCenters :
          rows = [r \in OpIds \cup {OtherRowId} |->
                     IF r = OtherRowId
                     THEN [JobOperationRow("J2", 1, AfterPrevious, 0, 4, otherWc)
                              EXCEPT !.status = otherStatus]
                          @@ [jobMakeMethodId |-> "M9"]
                     ELSE [JobOperationRow("J1", OrderInMethod(r), AfterPrevious,
                                           0, 4, workCenterId[r])
                              EXCEPT !.status = status[r]]
                          @@ [jobMakeMethodId |-> MethodOf(r)]]
    /\ operations = EmptyMap
    /\ graph = EmptyGraph(<<>>, OpIds)
    /\ prevRows = EmptyMap
    /\ runs = 0
    /\ today = ReschedToday
    /\ jobDate = Some(ReschedJobDate)
    /\ addCalls = 0
    /\ sortResult = <<>>
    /\ sortOutcome = NULL
    /\ scheduled = EmptyMap
    /\ firstRun = EmptyMap
    /\ PrioIdle
    /\ QueueIdle
    /\ ConcIdle

\* buildAssemblyTree(jobId).
BuildAssemblyTree ==
    /\ pc = "stored"
    /\ assemblyTree' = buildAssemblyTree(rows, "J1", MethodTree)
    /\ pc' = "tree"
    /\ UNCHANGED <<direction, graphVars, schedVars, prioVars, rows, prevRows, runs,
                   selVars, reqVars, queueVars, concVars, batchVars>>

\* Steps 2 and 3 of the engine: the operations of the tree in the order of
\* the direction, and the graph of their edges.
BuildTreeGraph ==
    /\ pc = "tree"
    /\ LET ids == IF direction = "backward"
                  THEN getAllOperationsForBackwardScheduling(assemblyTree)
                  ELSE getAllOperationsForForwardScheduling(assemblyTree)
       IN  /\ operations' = [id \in SeqToSet(ids) |-> rows[id]]
           /\ graph' = DependencyGraphImpl(ids, treeDependencyRecords(rows, assemblyTree),
                                           OpIds)
    /\ pc' = "loaded"
    /\ UNCHANGED <<direction, today, jobDate, scheduled, firstRun, addCalls,
                   sortResult, sortOutcome, prioVars, pipeVars>>

NextTree ==
    BuildAssemblyTree \/ BuildTreeGraph \/ CalculateJobDates \/ SelectJobWorkCenters

SpecTree == InitTree /\ [][NextTree]_vars

RECURSIVE NodesOfTree(_)
NodesOfTree(node) ==
    {node} \cup UNION {NodesOfTree(node.children[i]) : i \in 1..Len(node.children)}

Closed(id) == rows[id].status \in ClosedStatuses

\* Storage without the rows that are Done or Canceled.
OpenRows == [r \in {x \in DOMAIN rows : ~Closed(x)} |-> rows[r]]

\* C23: operations with status Done or Canceled never enter a scheduling
\* run: they are in no node of the tree buildAssemblyTree returns, hence in
\* neither the graph nor the schedule, and the persisted load of a work
\* center does not count them: the work centers selected are those selected
\* with the Done and Canceled rows taken out of storage.
C23_ClosedOperationsExcluded ==
    /\ pc \in {"tree", "loaded", "dated", "selected"} =>
          \A id \in OpIds, node \in NodesOfTree(assemblyTree) :
              Closed(id) => ~InSeq(id, node.operations)
    /\ pc \in {"loaded", "dated", "selected"} =>
          \A id \in OpIds : Closed(id) => (~IsNode(graph, id) /\ id \notin DOMAIN operations)
    /\ pc \in {"dated", "selected"} =>
          \A id \in OpIds : Closed(id) => id \notin DOMAIN scheduled
    /\ pc = "selected" =>
          /\ \A wcId \in ActiveWorkCenters, id \in DOMAIN scheduled :
                 calculateLoadBeforeDate(rows, wcId, scheduled[id].startDate)
                     = calculateLoadBeforeDate(OpenRows, wcId, scheduled[id].startDate)
          /\ wcSelections =
                 selectWorkCentersForOperations(
                     OpenRows,
                     [p \in DOMAIN processTable |->
                         workCentersByProcess(processTable, activeTable, p)],
                     scheduled,
                     SelectSeq(OpOrder, LAMBDA id : id \in DOMAIN scheduled))

\* B is Done and another job's Canceled operation sits on W1: A and C are
\* scheduled, and both W1 and W2 are taken.
C23_Witness ==
    /\ pc = "selected"
    /\ rows["B"].status = "Done" /\ rows["B"].workCenterId = "W1"
    /\ rows["A"].workCenterId = NULL /\ rows["C"].workCenterId = NULL
    /\ rows[OtherRowId].status = "Canceled" /\ rows[OtherRowId].workCenterId = "W1"
    /\ DOMAIN scheduled = {"A", "C"}
    /\ {wcSelections[id] : id \in DOMAIN wcSelections} = {"W1", "W2"}

-----------------------------------------------------------------------------
(* Further properties of the selection (SpecSelect) *)

\* The operation is given to selectWorkCenter and its process maps to no
\* active work center at the location.
NoEligibleWorkCenter(id) ==
    /\ scheduled[id].operationType # "Outside"
    /\ scheduled[id].processId # NULL
    /\ workCentersByProcess(processTable, activeTable, scheduled[id].processId) = <<>>

HasEligibleWorkCenter(id) ==
    /\ scheduled[id].operationType # "Outside"
    /\ scheduled[id].processId # NULL
    /\ workCentersByProcess(processTable, activeTable, scheduled[id].processId) # <<>>

\* C24: when an operation's process maps to no active work center at the
\* location, the failure is recorded on that operation as a conflict
\* (hasConflict = true with a reason), and every other operation of the
\* batch is still assigned a work center and scheduled.
C24_NoWorkCenterIsConflict ==
    pc = "selected" =>
        \A id \in SelIds :
            /\ NoEligibleWorkCenter(id) =>
                   (scheduled[id].hasConflict /\ scheduled[id].conflictReason # None)
            /\ HasEligibleWorkCenter(id) =>
                   /\ wcSelections[id] # NULL
                   /\ scheduled[id].workCenterId = wcSelections[id]

\* What the code keeps: the failure of one operation stops no other, and the
\* failed operation stays in the schedule with its dates.
C24_OthersStillAssigned ==
    pc = "selected" =>
        \A id \in SelIds :
            /\ id \in DOMAIN scheduled
            /\ scheduled[id].startDate = firstRun[id].startDate
            /\ NoEligibleWorkCenter(id) => wcSelections[id] = NULL
            /\ HasEligibleWorkCenter(id) =>
                   /\ wcSelections[id] # NULL
                   /\ scheduled[id].workCenterId = wcSelections[id]

-----------------------------------------------------------------------------
(* Further properties of the rescheduled job (SpecResched) *)

\* Storage without the rows of the job being scheduled.
RowsOfOtherJobs == [r \in {x \in DOMAIN rows : rows[x].jobId # "J1"} |-> rows[r]]

\* C25: the persisted load that selectWorkCenter counts for a work center
\* comes only from operations of other jobs: the operations of the job being
\* scheduled reach the total load through the in-memory tally only, never
\* through the storage read, so none of them is counted twice.
C25_PersistedLoadOfOtherJobs ==
    pc = "selected" =>
        \A id \in DOMAIN scheduled, wcId \in ActiveWorkCenters :
            calculateLoadBeforeDate(rows, wcId, scheduled[id].startDate)
                = calculateLoadBeforeDate(RowsOfOtherJobs, wcId, scheduled[id].startDate)

\* What the storage read does count: every row of the work center that is
\* not Done or Canceled and starts by the date, of whichever job.
C25_PersistedLoadOfEveryJob ==
    pc = "selected" =>
        \A id \in DOMAIN scheduled, wcId \in ActiveWorkCenters :
            calculateLoadBeforeDate(rows, wcId, scheduled[id].startDate)
                = 4 * Cardinality({r \in DOMAIN rows :
                                      /\ rows[r].workCenterId = wcId
                                      /\ \/ rows[r].startDate = None
                                         \/ ValueOf(rows[r].startDate) <= scheduled[id].startDate})

-----------------------------------------------------------------------------
(* Further properties of the schedules (SpecSched) *)

\* C26: forward scheduling cannot place an operation in the past: for every
\* anchor (the job start date, or today when the job has none) no operation
\* scheduled by the forward strategy has startDate earlier than today, and
\* hasConflict is false.
C26_ForwardNotInPast ==
    (pc = "scheduled" /\ direction = "forward") =>
        \A id \in DOMAIN scheduled :
            /\ scheduled[id].startDate >= today
            /\ ~scheduled[id].hasConflict

\* What the forward strategy keeps: no operation starts before the anchor,
\* and none is flagged.
C26_ForwardNotBeforeAnchor ==
    (pc = "scheduled" /\ direction = "forward") =>
        \A id \in DOMAIN scheduled :
            /\ scheduled[id].startDate >= anchorDate(jobDate, today)
            /\ ~scheduled[id].hasConflict
            /\ scheduled[id].conflictReason = None

-----------------------------------------------------------------------------
(* Further properties of the graph (SpecGraph) *)

\* Position of a node in the order topologicalSort returned; 0 when the node
\* is not in it.
PositionOf(id) ==
    IF InSeq(id, sortResult) THEN IndexOf(id, sortResult) ELSE 0

\* The nodes a node has to come after, for the direction of the sort.
ComesAfter(id) ==
    {n \in SeqToSet(graph.ids) :
        InSeq(n, IF direction = "forward" THEN getDependencies(graph, id)
                 ELSE getDependents(graph, id))}

LinearizedOrder ==
    /\ Len(sortResult) = Len(graph.ids)
    /\ \A id \in SeqToSet(graph.ids) :
           /\ Cardinality({i \in 1..Len(sortResult) : sortResult[i] = id}) = 1
           /\ \A n \in ComesAfter(id) : PositionOf(n) < PositionOf(id)

\* Every id named by an edge of a node is a node itself.
EdgesAmongNodes ==
    \A id \in SeqToSet(graph.ids) :
        /\ SeqToSet(graph.dependsOn[id]) \subseteq SeqToSet(graph.ids)
        /\ SeqToSet(graph.requiredBy[id]) \subseteq SeqToSet(graph.ids)

\* C27: for an acyclic graph topologicalSort returns every node exactly
\* once; with direction forward every node appears after all nodes in its
\* dependsOn, with direction reverse after all nodes in its requiredBy.
C27_SortLinearizes ==
    (pc = "sorted" /\ ~HasCycle(graph)) => LinearizedOrder

\* What the code keeps: the same, for a graph whose edges name nodes only.
C27_SortLinearizesAmongNodes ==
    (pc = "sorted" /\ ~HasCycle(graph) /\ EdgesAmongNodes) => LinearizedOrder

-----------------------------------------------------------------------------
(* Specification SpecBuild: buildOperationDependencies is applied to the     *)
(* operations of one method                                                  *)

\* The values of order: ties are possible, and the operations may be given
\* in another order than that of their order values.
OrderValues == 1..3

InitBuild ==
    /\ pc = "operations"
    /\ \E ord \in [OpIds -> OrderValues], oo \in [OpIds -> {AfterPrevious, WithPrevious}] :
          operations = [id \in OpIds |-> BaseOperation(ord[id], oo[id], 0, 4)]
    /\ graph = EmptyGraph(<<>>, OpIds)
    /\ addCalls = 0
    /\ sortResult = <<>>
    /\ sortOutcome = NULL
    /\ direction = NULL
    /\ today = 0
    /\ jobDate = None
    /\ scheduled = EmptyMap
    /\ firstRun = EmptyMap
    /\ PrioIdle
    /\ PipeIdle

\* buildOperationDependencies(operations), then dependenciesToRecords and
\* the graph of the records.
BuildDependencies ==
    /\ pc = "operations"
    /\ LET records == dependenciesToRecords(
                          buildOperationDependencies(operations, OpOrder), OpOrder)
       IN  /\ depRows' = records
           /\ graph' = DependencyGraphImpl(OpOrder, records, OpIds)
    /\ pc' = "built"
    /\ UNCHANGED <<direction, schedVars, prioVars, addCalls, sortResult, sortOutcome,
                   rows, prevRows, runs, selVars, request, response, prevDepRows,
                   queueVars, concVars, treeVars, batchVars>>

NextBuild == BuildDependencies

SpecBuild == InitBuild /\ [][NextBuild]_vars

\* The place of an operation among the operations sorted by order, those of
\* equal order in the order they were given in.
SequencePosition(id) ==
    1 + Cardinality({j \in OpIds :
                        \/ operations[j].order < operations[id].order
                        \/ /\ operations[j].order = operations[id].order
                           /\ IndexOf(j, OpOrder) < IndexOf(id, OpOrder)})

\* The rank of the claim.
RankOf(id) ==
    IF operations[id].operationOrder = WithPrevious
    THEN LET before == {j \in OpIds : /\ SequencePosition(j) < SequencePosition(id)
                                      /\ operations[j].operationOrder # WithPrevious}
         IN  IF before = {} THEN 1
             ELSE SetMax({SequencePosition(j) : j \in before})
    ELSE SequencePosition(id)

\* The occupied rank just below that of an operation; 0 when there is none.
PrecedingRank(id) ==
    LET lower == {RankOf(j) : j \in OpIds} \cap 1..(RankOf(id) - 1)
    IN  IF lower = {} THEN 0 ELSE SetMax(lower)

DependsOnRecord(a, b) == \E k \in 1..Len(depRows) : depRows[k] = <<a, b>>

\* C28: buildOperationDependencies on the operations of one method sorted by
\* order: a With Previous operation takes the rank of the nearest preceding
\* operation that is not With Previous (rank 1 if there is none), every
\* other operation its sequence position; every operation of a rank depends
\* on every operation of the preceding occupied rank, and no edge joins two
\* operations of the same rank.
C28_RanksAndEdges ==
    pc = "built" =>
        \A a \in OpIds, b \in OpIds :
            /\ DependsOnRecord(a, b) <=> RankOf(b) = PrecedingRank(a)
            /\ RankOf(a) = RankOf(b) => ~DependsOnRecord(a, b)
            /\ InSeq(b, getDependencies(graph, a)) <=> DependsOnRecord(a, b)

\* [A, B With Previous, C]: C depends on A and on B, and no edge joins A and B.
C28_Witness ==
    /\ pc = "built"
    /\ \A id \in OpIds : operations[id].order = IndexOf(id, OpOrder)
    /\ operations["A"].operationOrder = AfterPrevious
    /\ operations["B"].operationOrder = WithPrevious
    /\ operations["C"].operationOrder = AfterPrevious
    /\ {depRows[k] : k \in 1..Len(depRows)} = {<<"C", "A">>, <<"C", "B">>}

\* The date n business days before a date: the date itself for n = 0,
\* otherwise the weekday with n weekdays from it up to the day before date.
BusinessDaysBefore(date, n) ==
    IF n = 0 THEN date
    ELSE CHOOSE x \in (date - 2 * n - 3)..(date - 1) :
             /\ ~IsWeekend(x)
             /\ Cardinality({d \in x..(date - 1) : ~IsWeekend(d)}) = n

\* C29: backward due-date rule: an operation with no dependents gets dueDate
\* = anchor (the job due date, or today when absent); an operation with
\* dependents gets the minimum over its dependents d of d.startDate minus
\* d's lead time in business days, the lead time being the dependent's.
C29_BackwardDueDate ==
    (pc = "scheduled" /\ direction = "backward") =>
        \A id \in DOMAIN scheduled :
            LET dependents == SeqToSet(getDependents(graph, id))
            IN  IF dependents = {}
                THEN scheduled[id].dueDate = anchorDate(jobDate, today)
                ELSE scheduled[id].dueDate =
                         SetMin({BusinessDaysBefore(scheduled[d].startDate,
                                                    operations[d].operationLeadTime) :
                                 d \in dependents})

\* B has the dependent C, whose lead time is 1 while B's own is 0: B is due
\* one business day before C starts; C has no dependent and is due on the
\* job's due date.
C29_Witness ==
    /\ pc = "scheduled" /\ direction = "backward"
    /\ jobDate = Some(20105)
    /\ getDependents(graph, "C") = <<>>
    /\ getDependents(graph, "B") = <<"C">>
    /\ operations["C"].operationLeadTime = 1
    /\ operations["B"].operationLeadTime = 0
    /\ scheduled["C"].dueDate = 20105
    /\ scheduled["B"].dueDate = BusinessDaysBefore(scheduled["C"].startDate, 1)
    /\ scheduled["B"].dueDate < scheduled["C"].startDate


\* The backward strategy copies a predecessor's dates only when the
\* operation is With Previous and its first dependency was scheduled before
\* it, that is, comes earlier in the reverse topological order.
CopiesPredecessorBackward(id) ==
    LET dependencies == getDependencies(graph, id)
        sorted == topologicalSort(graph, "reverse")
    IN  /\ operations[id].operationOrder = WithPrevious
        /\ Len(dependencies) > 0
        /\ InSeq(dependencies[1], sorted)
        /\ IndexOf(dependencies[1], sorted) < IndexOf(id, sorted)

\* C30: backward start-date rule: every operation that does not copy a
\* predecessor starts durationDays business days before its due date, so
\* its start date is strictly earlier than its due date.
C30_BackwardStartDate ==
    (pc = "scheduled" /\ direction = "backward") =>
        \A id \in DOMAIN scheduled :
            ~CopiesPredecessorBackward(id) =>
                /\ scheduled[id].startDate =
                       BusinessDaysBefore(scheduled[id].dueDate, scheduled[id].durationDays)
                /\ scheduled[id].startDate < scheduled[id].dueDate

\* C is due on Friday 2025-01-17 and takes two days, B is a With Previous
\* operation due on a Monday that takes one day: C starts on the Wednesday,
\* B on the Friday before its due date, the weekend skipped.
C30_Witness ==
    /\ pc = "scheduled" /\ direction = "backward"
    /\ jobDate = Some(20105)
    /\ ~CopiesPredecessorBackward("B") /\ ~CopiesPredecessorBackward("C")
    /\ operations["B"].operationOrder = WithPrevious
    /\ Len(getDependencies(graph, "B")) > 0
    /\ scheduled["C"].dueDate = 20105
    /\ scheduled["C"].durationDays = 2
    /\ scheduled["C"].startDate = 20103
    /\ \E id \in DOMAIN scheduled :
          /\ getDay(scheduled[id].dueDate) = 1
          /\ scheduled[id].durationDays = 1
          /\ scheduled[id].startDate = scheduled[id].dueDate - 3


\* The date n business days after a date: the date itself for n = 0,
\* otherwise the weekday with n weekdays from the day after date up to it.
BusinessDaysAfter(date, n) ==
    IF n = 0 THEN date
    ELSE CHOOSE x \in (date + 1)..(date + 2 * n + 3) :
             /\ ~IsWeekend(x)
             /\ Cardinality({d \in (date + 1)..x : ~IsWeekend(d)}) = n

\* The forward strategy processes dependencies first, so a With Previous
\* operation with a dependency copies the dates of its first dependency.
CopiesPredecessorForward(id) ==
    /\ operations[id].operationOrder = WithPrevious
    /\ Len(getDependencies(graph, id)) > 0

\* C31: forward rule: an operation with no dependencies starts on the
\* anchor; an operation with dependencies that does not copy a predecessor
\* starts on the latest due date of its dependencies plus its own lead time
\* in business days; its due date is its start date plus durationDays
\* business days.
C31_ForwardRule ==
    (pc = "scheduled" /\ direction = "forward") =>
        \A id \in DOMAIN scheduled :
            LET dependencies == SeqToSet(getDependencies(graph, id))
            IN  /\ dependencies = {} =>
                       scheduled[id].startDate = anchorDate(jobDate, today)
                /\ (dependencies # {} /\ ~CopiesPredecessorForward(id)) =>
                       scheduled[id].startDate =
                           BusinessDaysAfter(
                               SetMax({scheduled[d].dueDate : d \in dependencies}),
                               operations[id].operationLeadTime)
                /\ ~CopiesPredecessorForward(id) =>
                       scheduled[id].dueDate =
                           BusinessDaysAfter(scheduled[id].startDate,
                                             scheduled[id].durationDays)

\* A starts on the job date Friday 2025-01-17; C depends on A and B, whose
\* due dates differ, has lead time 1 and does not copy: it starts one
\* business day after the later of the two, and is due durationDays later.
C31_Witness ==
    /\ pc = "scheduled" /\ direction = "forward"
    /\ jobDate = Some(20105)
    /\ getDependencies(graph, "A") = <<>>
    /\ scheduled["A"].startDate = 20105
    /\ SeqToSet(getDependencies(graph, "C")) = {"A", "B"}
    /\ operations["C"].operationOrder = AfterPrevious
    /\ operations["C"].operationLeadTime = 1
    /\ scheduled["A"].dueDate # scheduled["B"].dueDate
    /\ scheduled["C"].startDate =
           BusinessDaysAfter(Max2(scheduled["A"].dueDate, scheduled["B"].dueDate), 1)
    /\ scheduled["C"].startDate > Max2(scheduled["A"].dueDate, scheduled["B"].dueDate)
    /\ scheduled["C"].dueDate > scheduled["C"].startDate

-----------------------------------------------------------------------------
(* One batch of selectWorkCentersForOperations, operation by operation
   (SpecBatch) *)

\* The comparator of the sort, lines 514-519, on operations whose startDate
\* is None when null: negative when a goes first, positive when b does.
compareStartDate(a, b) ==
    IF a.startDate = None /\ b.startDate = None THEN 0
    ELSE IF a.startDate = None THEN 1
    ELSE IF b.startDate = None THEN -1
    ELSE ValueOf(a.startDate) - ValueOf(b.startDate)

\* [...operations].sort(comparator): Array.prototype.sort is stable.
RECURSIVE InsertByCompare(_, _, _)
InsertByCompare(ops, sorted, id) ==
    IF sorted = <<>> THEN <<id>>
    ELSE IF compareStartDate(ops[Head(sorted)], ops[id]) <= 0
         THEN <<Head(sorted)>> \o InsertByCompare(ops, Tail(sorted), id)
         ELSE <<id>> \o sorted

RECURSIVE SortByCompare(_, _)
SortByCompare(ops, ids) ==
    IF ids = <<>> THEN <<>>
    ELSE InsertByCompare(ops, SortByCompare(ops, SubSeq(ids, 1, Len(ids) - 1)),
                         ids[Len(ids)])

\* Storage of the batch: process X with W1 and W2.
BatchProcesses == [p \in {"X"} |-> <<"W1", "W2">>]
BatchWorkCenters == {"W1", "W2"}
BatchStartDates == {None, Some(20104), Some(20106)}
BatchHours == {4, 12}

\* What a batch run earlier on the same selector left in its tally.
LeftoverTallies == {EmptyMap, [w \in BatchWorkCenters |-> 8]}

BatchOperation(processId, operationType, startDate, durationHours) ==
    [processId |-> processId, operationType |-> operationType,
     workCenterId |-> NULL, startDate |-> startDate, dueDate |-> startDate,
     durationHours |-> durationHours, durationDays |-> 1, priority |-> 99,
     hasConflict |-> FALSE, conflictReason |-> None]

\* The selector after initialize(), with the tally an earlier batch left,
\* and the scheduled operations it is about to be given.
InitBatch ==
    /\ pc = "scheduled"
    /\ processTable = BatchProcesses
    /\ activeTable \in {{"W1", "W2"}, {"W2"}, {}}
    /\ wcSelections = EmptyMap
    /\ \E operationType \in [OpIds -> {"Inside", "Outside"}],
          startDate \in [OpIds -> BatchStartDates],
          durationHours \in [OpIds -> BatchHours],
          lastProcess \in {NULL, "X"} :
          scheduled = [id \in OpIds |->
                          BatchOperation(IF id = OpOrder[Len(OpOrder)]
                                         THEN lastProcess ELSE "X",
                                         operationType[id], startDate[id],
                                         durationHours[id])]
    /\ \E otherWc \in {NULL, "W1"} :
          rows = [r \in {OtherRowId} |->
                     [JobOperationRow("J2", 1, AfterPrevious, 0, 4, otherWc)
                         EXCEPT !.startDate = Some(20105)]]
    /\ \E leftover \in LeftoverTallies :
          selector = [inMemoryLoadByWorkCenter |-> leftover, sorted |-> <<>>,
                      next |-> 1, selections |-> EmptyMap]
    /\ today = ReschedToday
    /\ prevRows = EmptyMap
    /\ runs = 0
    /\ firstRun = EmptyMap
    /\ operations = EmptyMap
    /\ jobDate = None
    /\ direction = NULL
    /\ graph = EmptyGraph(<<>>, OpIds)
    /\ addCalls = 0
    /\ sortResult = <<>>
    /\ sortOutcome = NULL
    /\ PrioIdle
    /\ ReqIdle
    /\ QueueIdle
    /\ ConcIdle
    /\ TreeIdle

BatchRest == <<direction, graphVars, schedVars, prioVars, rows, prevRows, runs,
               processTable, activeTable, reqVars, queueVars, concVars, treeVars>>

\* selectWorkCentersForOperations, lines 508-519: resetInMemoryLoad() and
\* the sort.
StartBatch ==
    /\ pc = "scheduled"
    /\ selector' = [inMemoryLoadByWorkCenter |-> EmptyMap,
                    sorted |-> SortByCompare(scheduled, OpOrder),
                    next |-> 1, selections |-> EmptyMap]
    /\ pc' = "selecting"
    /\ UNCHANGED <<wcSelections, BatchRest>>

\* One pass of the loop, lines 521-538; selectWorkCenter takes today for a
\* null start date (line 467). After the last pass the selections are
\* returned.
SelectNext ==
    /\ pc = "selecting"
    /\ LET id == selector.sorted[selector.next]
           op == scheduled[id]
           wcs == [p \in DOMAIN processTable |->
                      workCentersByProcess(processTable, activeTable, p)]
           tally == selector.inMemoryLoadByWorkCenter
           wcId == selectWorkCenter(rows, tally, wcs, op.processId,
                                    IF op.startDate = None THEN today
                                    ELSE ValueOf(op.startDate))
           selections == IF op.operationType = "Outside" THEN selector.selections
                         ELSE MapSet(selector.selections, id, wcId)
           last == selector.next = Len(selector.sorted)
       IN  /\ selector' =
                  [selector EXCEPT
                      !.next = @ + 1,
                      !.selections = selections,
                      !.inMemoryLoadByWorkCenter =
                          IF op.operationType # "Outside" /\ wcId # NULL
                          THEN addInMemoryLoad(tally, wcId, op.durationHours)
                          ELSE tally]
           /\ wcSelections' = IF last THEN selections ELSE wcSelections
           /\ pc' = IF last THEN "selected" ELSE "selecting"
    /\ UNCHANGED BatchRest

NextBatch == StartBatch \/ SelectNext

SpecBatch == InitBatch /\ [][NextBatch]_vars

\* The operations the loop has been through, in the order it took them.
ProcessedOps == SubSeq(selector.sorted, 1, selector.next - 1)

\* Hours of the operations among ids that were assigned to a work center.
RECURSIVE AssignedHours(_, _)
AssignedHours(wcId, ids) ==
    IF ids = <<>> THEN 0
    ELSE (IF /\ Head(ids) \in DOMAIN selector.selections
             /\ selector.selections[Head(ids)] = wcId
          THEN scheduled[Head(ids)].durationHours ELSE 0)
         + AssignedHours(wcId, Tail(ids))

\* C32: selectWorkCentersForOperations starts from an empty tally, takes the
\* operations in non-decreasing startDate order with null start dates last,
\* never creates a selection or adds load for an Outside operation, and
\* after each successful selection adds the operation's durationHours to
\* the chosen work center: at every point of the batch the tally of a work
\* center is the sum of durationHours of the operations assigned to it so
\* far in this batch.
C32_BatchTally ==
    pc \in {"selecting", "selected"} =>
        LET sorted == selector.sorted
            done == ProcessedOps
        IN  /\ SeqToSet(sorted) = OpIds /\ Len(sorted) = Cardinality(OpIds)
            /\ \A i, j \in 1..Len(sorted) :
                  i < j =>
                      LET a == scheduled[sorted[i]].startDate
                          b == scheduled[sorted[j]].startDate
                      IN  /\ a = None => b = None
                          /\ (a # None /\ b # None) => ValueOf(a) <= ValueOf(b)
            /\ DOMAIN selector.selections =
                   {id \in SeqToSet(done) : scheduled[id].operationType # "Outside"}
            /\ \A wcId \in BatchWorkCenters :
                  getInMemoryLoad(selector.inMemoryLoadByWorkCenter, wcId)
                      = AssignedHours(wcId, done)

\* Only W2 is active: B (earlier date) and A (no date) are taken in this
\* order and both go to W2, whose tally is the 16 hours of the two; C is an
\* Outside operation and has no selection.
C32_Witness ==
    /\ pc = "selected"
    /\ activeTable = {"W2"}
    /\ scheduled["A"].startDate = None
    /\ scheduled["B"].startDate = Some(20106)
    /\ scheduled["C"].startDate = Some(20104)
    /\ scheduled["C"].operationType = "Outside"
    /\ selector.sorted = <<"C", "B", "A">>
    /\ DOMAIN wcSelections = {"A", "B"}
    /\ wcSelections["A"] = "W2" /\ wcSelections["B"] = "W2"
    /\ scheduled["A"].durationHours = 4 /\ scheduled["B"].durationHours = 12
    /\ getInMemoryLoad(selector.inMemoryLoadByWorkCenter, "W2") = 16
    /\ getInMemoryLoad(selector.inMemoryLoadByWorkCenter, "W1") = 0

-----------------------------------------------------------------------------
(* The traversals of an assembly tree (SpecTraverse) *)

MaxNodes == 4

MethodNames == <<"M1", "M2", "M3", "M4", "M5">>

\* The shapes of a tree of k methods: the parent of each method but the
\* first, a method of lower number; the children of a method are in the
\* order of their numbers.
ParentMaps(k) == {parent \in [2..k -> 1..k] : \A i \in 2..k : parent[i] < i}

RECURSIVE AscendingSeq(_)
AscendingSeq(S) ==
    IF S = {} THEN <<>> ELSE <<SetMin(S)>> \o AscendingSeq(S \ {SetMin(S)})

\* The AssemblyNode of method i: its operations are those of the job that
\* belong to it, in the order of the job.
RECURSIVE AssemblyNodeOf(_, _, _, _)
AssemblyNodeOf(parent, k, methodOf, i) ==
    LET kids == AscendingSeq({j \in 2..k : parent[j] = i})
    IN  [id |-> MethodNames[i],
         jobMakeMethodId |-> MethodNames[i],
         operations |-> SelectSeq(OpOrder, LAMBDA o : methodOf[o] = i),
         children |-> [c \in 1..Len(kids) |->
                          AssemblyNodeOf(parent, k, methodOf, kids[c])]]

InitTraverse ==
    /\ pc = "tree"
    /\ \E k \in 1..MaxNodes :
          \E parent \in ParentMaps(k), methodOf \in [OpIds -> 1..k] :
              assemblyTree = AssemblyNodeOf(parent, k, methodOf, 1)
    /\ BatchIdle
    /\ graph = EmptyGraph(<<>>, OpIds)
    /\ addCalls = 0
    /\ sortResult = <<>>
    /\ sortOutcome = NULL
    /\ direction = NULL
    /\ today = 0
    /\ jobDate = None
    /\ operations = EmptyMap
    /\ scheduled = EmptyMap
    /\ firstRun = EmptyMap
    /\ rows = EmptyMap
    /\ prevRows = EmptyMap
    /\ runs = 0
    /\ PrioIdle
    /\ SelIdle
    /\ ReqIdle
    /\ QueueIdle
    /\ ConcIdle

\* The operation stream of the tree for a direction; sortResult holds it.
CollectOperations(dir) ==
    /\ pc = "tree"
    /\ direction' = dir
    /\ sortResult' = IF dir = "backward"
                     THEN getAllOperationsForBackwardScheduling(assemblyTree)
                     ELSE getAllOperationsForForwardScheduling(assemblyTree)
    /\ pc' = "collected"
    /\ UNCHANGED <<graph, addCalls, sortOutcome, schedVars, prioVars, pipeVars>>

NextTraverse == \E dir \in {"backward", "forward"} : CollectOperations(dir)

SpecTraverse == InitTraverse /\ [][NextTraverse]_vars

\* The nodes below a node.
DescendantsOf(node) ==
    UNION {NodesOfTree(node.children[i]) : i \in 1..Len(node.children)}

\* A sequence lists every node of the tree exactly once.
ListsEveryNodeOnce(s) ==
    /\ SeqToSet(s) = NodesOfTree(assemblyTree)
    /\ Len(s) = Cardinality(NodesOfTree(assemblyTree))

\* In sequence s every element of the first set comes before every element
\* of the second.
AllBefore(s, first, second) ==
    \A i, j \in 1..Len(s) : (s[i] \in second /\ s[j] \in first) => j < i

\* C33: for any assembly tree getPostOrderTraversal lists every node exactly
\* once with every child before its parent, getPreOrderTraversal lists every
\* node exactly once with every parent before its children; the operation
\* stream for backward scheduling has all operations of a method before
\* those of its ancestors, and the forward stream the reverse.
C33_TraversalOrders ==
    pc = "collected" =>
        LET post == getPostOrderTraversal(assemblyTree)
            pre == getPreOrderTraversal(assemblyTree)
        IN  /\ ListsEveryNodeOnce(post)
            /\ ListsEveryNodeOnce(pre)
            /\ \A node \in NodesOfTree(assemblyTree) :
                  LET children == SeqToSet(node.children)
                      below == UNION {SeqToSet(d.operations) : d \in DescendantsOf(node)}
                      own == SeqToSet(node.operations)
                  IN  /\ AllBefore(post, children, {node})
                      /\ AllBefore(pre, {node}, children)
                      /\ direction = "backward" => AllBefore(sortResult, below, own)
                      /\ direction = "forward" => AllBefore(sortResult, own, below)
            /\ SeqToSet(sortResult) = OpIds /\ Len(sortResult) = Cardinality(OpIds)

\* M1 has the children M2 and M4, and M3 is a child of M2; A is an
\* operation of M1, B of M2 and C of M3: the backward stream is C, B, A.
C33_Witness ==
    /\ pc = "collected" /\ direction = "backward"
    /\ Len(getPostOrderTraversal(assemblyTree)) = 4
    /\ [i \in 1..4 |-> getPostOrderTraversal(assemblyTree)[i].id]
           = <<"M3", "M2", "M4", "M1">>
    /\ [i \in 1..4 |-> getPreOrderTraversal(assemblyTree)[i].id]
           = <<"M1", "M2", "M3", "M4">>
    /\ assemblyTree.operations = <<"A">>
    /\ assemblyTree.children[1].operations = <<"B">>
    /\ assemblyTree.children[1].children[1].operations = <<"C">>
    /\ sortResult = <<"C", "B", "A">>

-----------------------------------------------------------------------------
(* Business-day arithmetic on its own (SpecDays) *)

MaxBusinessDays == 6

\* Two weeks of dates, Thursday 2025-01-09 to Wednesday 2025-01-22.
CalendarDates == 20097..20110

\* The date is in jobDate and the number of days is the lead time of the
\* one operation.
InitDays ==
    /\ pc = "date"
    /\ \E date \in CalendarDates : jobDate = Some(date)
    /\ \E days \in 0..MaxBusinessDays :
          operations = [id \in {"A"} |-> [operationLeadTime |-> days]]
    /\ scheduled = EmptyMap
    /\ firstRun = EmptyMap
    /\ today = 0
    /\ direction = NULL
    /\ graph = EmptyGraph(<<>>, OpIds)
    /\ addCalls = 0
    /\ sortResult = <<>>
    /\ sortOutcome = NULL
    /\ PrioIdle
    /\ PipeIdle

DaysRest == <<direction, operations, today, jobDate, firstRun, graphVars,
              prioVars, pipeVars>>

\* addBusinessDays(date, days).
AddBusinessDays ==
    /\ pc = "date"
    /\ scheduled' = [id \in DOMAIN operations |->
                        [startDate |-> ValueOf(jobDate),
                         dueDate |-> addBusinessDays(ValueOf(jobDate),
                                                     operations[id].operationLeadTime)]]
    /\ pc' = "added"
    /\ UNCHANGED DaysRest

\* subtractBusinessDays(date, days).
SubtractBusinessDays ==
    /\ pc = "date"
    /\ scheduled' = [id \in DOMAIN operations |->
                        [startDate |-> subtractBusinessDays(ValueOf(jobDate),
                                                            operations[id].operationLeadTime),
                         dueDate |-> ValueOf(jobDate)]]
    /\ pc' = "subtracted"
    /\ UNCHANGED DaysRest

\* addBusinessDays(subtractBusinessDays(date, days), days).
AddBack ==
    /\ pc = "subtracted"
    /\ scheduled' = [id \in DOMAIN operations |->
                        [scheduled[id] EXCEPT
                            !.dueDate = addBusinessDays(scheduled[id].startDate,
                                                        operations[id].operationLeadTime)]]
    /\ pc' = "roundtrip"
    /\ UNCHANGED DaysRest

NextDays == AddBusinessDays \/ SubtractBusinessDays \/ AddBack

SpecDays == InitDays /\ [][NextDays]_vars

\* C34: addBusinessDays and subtractBusinessDays with n > 0 move by exactly
\* n weekdays, skipping Saturdays and Sundays, and land on Monday..Friday;
\* with n = 0 they return the input date unchanged even on a weekend day;
\* for a weekday d and n >= 0, addBusinessDays(subtractBusinessDays(d, n),
\* n) = d.
C34_BusinessDays ==
    pc \in {"added", "subtracted", "roundtrip"} =>
        LET date == ValueOf(jobDate)
            n == operations["A"].operationLeadTime
            result == scheduled["A"]
        IN  /\ pc = "added" =>
                  /\ result.dueDate = BusinessDaysAfter(date, n)
                  /\ n > 0 => ~IsWeekend(result.dueDate)
                  /\ n = 0 => result.dueDate = date
            /\ pc = "subtracted" =>
                  /\ result.startDate = BusinessDaysBefore(date, n)
                  /\ n > 0 => ~IsWeekend(result.startDate)
                  /\ n = 0 => result.startDate = date
            /\ (pc = "roundtrip" /\ ~IsWeekend(date)) => result.dueDate = date

\* Three business days back from Monday 2025-01-13 is Wednesday 2025-01-08,
\* across a weekend, and three business days on from there is the Monday.
C34_Witness ==
    /\ pc = "roundtrip"
    /\ jobDate = Some(20101)
    /\ operations["A"].operationLeadTime = 3
    /\ scheduled["A"].startDate = 20096
    /\ scheduled["A"].dueDate = 20101


\* The operations with every With Previous mark taken off.
UnmarkedOperations ==
    [id \in DOMAIN operations |->
        [operations[id] EXCEPT !.operationOrder = AfterPrevious]]

C36_NoDueDateAllConflict ==
    (pc = "scheduled" /\ direction = "backward" /\ jobDate = None) =>
        /\ \E id \in DOMAIN scheduled : scheduled[id].dueDate = today
        /\ \A id \in DOMAIN scheduled :
              /\ scheduled[id].dueDate <= today
              /\ scheduled[id].durationDays >= 1
              /\ scheduled[id].startDate < today
              /\ scheduled[id].hasConflict

\* No due date and today Monday 2025-01-13: C, which nothing waits for, is
\* due today, takes half a day and starts on the Friday before; all three
\* operations are in conflict.
C36_Witness ==
    /\ pc = "scheduled" /\ direction = "backward" /\ jobDate = None
    /\ today = 20101
    /\ getDependents(graph, "C") = <<>>
    /\ operations["C"].setupTime = 4
    /\ scheduled["C"].dueDate = 20101
    /\ scheduled["C"].startDate = 20098
    /\ DOMAIN scheduled = OpIds
    /\ \A id \in OpIds : scheduled[id].hasConflict

-----------------------------------------------------------------------------
(* Schedules over graphs whose records may name ids that are no nodes
   (SpecStray) *)

\* The operations given to calculateOperationDates: A and B. C is the id of
\* an operation that is not among them.
StrayOrder == SubSeq(OpOrder, 1, 2)
StrayIds == SeqToSet(StrayOrder)

\* The dependency records that may be stored, in a fixed order.
StrayPairs ==
    <<<<"A", "B">>, <<"B", "A">>, <<"A", "C">>, <<"B", "C">>, <<"C", "A">>, <<"C", "B">>>>

InitStray ==
    /\ pc = "loaded"
    /\ \E oo \in {AfterPrevious, WithPrevious}, setup \in [StrayIds -> {4, 12}] :
          operations = [id \in StrayIds |->
                           BaseOperation(IndexOf(id, StrayOrder),
                                         IF id = "B" THEN oo ELSE AfterPrevious,
                                         0, setup[id])]
    /\ \E stored \in SUBSET SeqToSet(StrayPairs) :
          graph = DependencyGraphImpl(StrayOrder,
                                      SelectSeq(StrayPairs, LAMBDA r : r \in stored),
                                      OpIds)
    /\ addCalls = 0
    /\ sortResult = <<>>
    /\ sortOutcome = NULL
    /\ direction = NULL
    /\ today = 0
    /\ jobDate = None
    /\ scheduled = EmptyMap
    /\ firstRun = EmptyMap
    /\ PrioIdle
    /\ PipeIdle

NextStray ==
    \E dir \in {"backward", "forward"}, td \in TodayDates,
       date \in {Some(d) : d \in JobDates} \cup {None} :
       CalculateDates(dir, td, date)

SpecStray == InitStray /\ [][NextStray]_vars

\* C37: every operation passed to calculateOperationDates with an id
\* receives exactly one ScheduledOperation in the result unless the graph is
\* cyclic, an operation whose dependency record names an id that is no node
\* of the graph included.
C37_EveryOperationScheduled ==
    (pc = "scheduled" /\ ~HasCycle(graph)) => DOMAIN scheduled = DOMAIN operations

\* What the code keeps: every operation is scheduled when the graph is
\* acyclic and the edges its nodes hold name nodes only.
C37_ScheduledWhenEdgesAmongNodes ==
    (pc = "scheduled" /\ ~HasCycle(graph) /\ EdgesAmongNodes) =>
        DOMAIN scheduled = DOMAIN operations

\* A forward run leaves out a node whose dependsOn names an id that is no
\* node, a backward run a node whose requiredBy does.
C37_StrayEdgeDropsOperation ==
    pc = "scheduled" =>
        \A id \in DOMAIN operations :
            LET edges == IF direction = "forward" THEN graph.dependsOn[id]
                         ELSE graph.requiredBy[id]
            IN  ~(SeqToSet(edges) \subseteq SeqToSet(graph.ids)) =>
                    id \notin DOMAIN scheduled


\* The selection of an operation succeeded: it names a work center.
SelectionSucceeded(id) == id \in DOMAIN wcSelections /\ wcSelections[id] # NULL

\* C38: applyWorkCenterSelections returns a map with the operation ids of
\* its input and changes the workCenterId field only, and only for the
\* operations whose selection succeeded; an operation with no selection or
\* a failed one, and every other field of every operation, is unchanged.
\* firstRun is the map that was given to it.
C38_OnlyWorkCenterChanges ==
    pc = "selected" =>
        /\ DOMAIN scheduled = DOMAIN firstRun
        /\ \A id \in DOMAIN scheduled :
              /\ DOMAIN scheduled[id] = DOMAIN firstRun[id]
              /\ \A field \in DOMAIN scheduled[id] \ {"workCenterId"} :
                    scheduled[id][field] = firstRun[id][field]
              /\ scheduled[id].workCenterId =
                     IF SelectionSucceeded(id) THEN wcSelections[id]
                     ELSE firstRun[id].workCenterId

\* A was stored on W3 and is selected onto W1; the selection of B failed
\* for lack of a process and B keeps W2.
C38_Witness ==
    /\ pc = "selected"
    /\ firstRun["A"].workCenterId = "W3"
    /\ "A" \in DOMAIN wcSelections /\ "B" \in DOMAIN wcSelections
    /\ wcSelections["A"] = "W1" /\ scheduled["A"].workCenterId = "W1"
    /\ firstRun["B"].processId = NULL
    /\ firstRun["B"].operationType = "Inside"
    /\ wcSelections["B"] = NULL
    /\ firstRun["B"].workCenterId = "W2" /\ scheduled["B"].workCenterId = "W2"

-----------------------------------------------------------------------------
(* The graph of one method's operations, built and sorted (SpecBuildSort) *)

NextBuildSort ==
    \/ BuildDependencies
    \/ \E dir \in {"forward", "reverse"} : GraphTopologicalSort(dir)

SpecBuildSort == InitBuild /\ [][NextBuildSort]_vars

\* C39: the edges buildOperationDependencies produces for one method never
\* form a cycle: every edge goes from an operation to one of strictly lower
\* adjusted rank, so topologicalSort over the method's operations emits all
\* of them, for every combination of order values and With Previous marks
\* (a first operation marked With Previous and equal order values
\* included).
C39_BuilderEdgesAcyclic ==
    pc \in {"built", "sorted"} =>
        /\ \A a \in OpIds, b \in OpIds : DependsOnRecord(a, b) => RankOf(b) < RankOf(a)
        /\ ~HasCycle(graph)
        /\ EdgesAmongNodes
        /\ pc = "sorted" =>
              /\ Len(sortResult) = Cardinality(OpIds)
              /\ SeqToSet(sortResult) = OpIds

\* Three operations of equal order value, the first marked With Previous
\* and the third as well: B and C share rank 2 and depend on A; the forward
\* sort emits A, B, C.
C39_Witness ==
    /\ pc = "sorted" /\ direction = "forward"
    /\ \A id \in OpIds : operations[id].order = 1
    /\ operations["A"].operationOrder = WithPrevious
    /\ operations["B"].operationOrder = AfterPrevious
    /\ operations["C"].operationOrder = WithPrevious
    /\ {depRows[k] : k \in 1..Len(depRows)} = {<<"B", "A">>, <<"C", "A">>}
    /\ sortResult = <<"A", "B", "C">>

====
